---- MODULE Spec2Model ----
(***************************************************************************)
(* A model of the coordination core of carbot: PriorityMux, ControlLoop,   *)
(* LatestStore, the polling drivers and the teleop input layer.            *)
(*                                                                         *)
(* Each component has its own specification over the shared variables; a   *)
(* specification leaves the variables of the other components unchanged.   *)
(* Time is the integer clock `now` (one unit is one resolution step of     *)
(* time.monotonic()).                                                      *)
(***************************************************************************)
EXTENDS Integers, Sequences, FiniteSets, TLC

VARIABLES
    now,                  \* time.monotonic()
    \* ---- PriorityMux[MotorCommand] and its sources
    entries,              \* PriorityMux._entries (motor mux)
    msrc,                 \* msrc[s]: what motor source s yields from latest()
    picked,               \* the result of a pick() the caller has not consumed yet
    \* ---- ControlLoop
    motor,                \* ControlLoop._motor is not None
    servo,                \* ControlLoop._servo is not None
    motor_mux,            \* ControlLoop._motor_mux is not None
    servo_mux,            \* ControlLoop._servo_mux is not None
    motor_failsafe_stop,  \* ControlLoop._motor_failsafe_stop
    ssrc,                 \* ssrc[s]: what servo source s yields from latest()
    last_motor,           \* ControlLoop._last_motor
    last_servo,           \* ControlLoop._last_servo
    tk,                   \* history: what the most recent tick() did
    absent_run,           \* history: length of the current run of ticks whose motor pick
                          \* was absent (saturating at MaxRun)
    run_pre,              \* history: _last_motor when that run began
    run_drives,           \* history: drive(0, 0) invocations in that run (saturating at 2)
    run_ok,               \* history: those of them that returned (saturating at 2)
    loop_stop,            \* ControlLoop._stop is set
    run_pc,               \* where the thread that called run_forever() is
    run_final,            \* history: the final drive(0, 0) of run_forever()
    run_last_drive,       \* history: the arguments of the loop's last drive call
    \* ---- LatestStore and the threads that call it
    st_value,             \* LatestStore._value
    st_ts,                \* LatestStore._timestamp_ns
    st_lock,              \* the thread that holds LatestStore._lock, or Free
    st_pc,                \* st_pc[t]: where thread t is in its call
    st_loc,               \* st_loc[t]: the arguments and locals of thread t's call
    stop_event,           \* the stop_event passed to wait_newer is set
    st_committed,         \* history: the pair of the last set() to leave the lock
    \* ---- keyboard teleop
    tel_cfg,              \* the implementation and its config (deadman_s, invert_steer, ...)
    tel_latest_motor,     \* Teleop._latest_motor
    tel_last_motor_input_t, \* Teleop._last_motor_input_t
    tel_pressed,          \* UsbKeyboardTeleop._pressed
    usb_hist,             \* history: the last key event read, for each token followed
    tty,                  \* the terminal of stdin, and what the terminal teleop's _loop saved of it
    tel_quit,             \* Teleop._quit is set
    tel_ret,              \* history: the last latest_motor() call and what it returned
    tel_started,          \* Teleop._thread is not None
    tel_thread,           \* where the input thread is (_thread_main and _loop)
    tel_stop,             \* Teleop._stop is set
    tel_thread_exc,       \* Teleop._thread_exc is not None
    tel_dev,              \* UsbKeyboardTeleop._dev: the input device
    tel_stopping,         \* a stop() call is waiting in thread.join()
    tel_last_motor_refresh_t, \* last_motor_refresh_t of UsbKeyboardTeleop._loop
    tel_crash_quit,       \* history: _quit was set by the handler of _thread_main
    \* ---- polling driver (infrared, ultrasonic)
    drv_kind,             \* which driver
    drv_seq,              \* Driver._seq (camera: history, the frames published)
    drv_latest,           \* Driver._latest
    drv_stop,             \* Driver._stop is set
    drv_thread,           \* Driver._thread is not None
    drv_closed,           \* Driver._closed
    drv_poll,             \* the polling threads spawned so far: where each is in
                          \* _loop, and what it read
    drv_stopper,          \* drv_stopper[s]: where thread s is in stop()
    drv_started,          \* history: the last start() call and how it ended
    drv_stop_called,      \* history: stop() or close() has been called
    drv_ctl_closes,       \* history: calls of the controller's close() (saturating)
    drv_pc,               \* drv_pc[c]: where caller c is in wait_next
    drv_loc,              \* drv_loc[c]: the arguments and locals of caller c's call
    \* ---- StreamingService
    svc_stop_event,       \* StreamingService._stop_event is set
    svc_shutdown_request, \* the HTTP server's shutdown request flag
    svc_is_shut_down,     \* the HTTP server's "is shut down" event is set
    svc_srv,              \* where the thread that runs serve_forever() is
    svc_worker,           \* the state of StreamingService._jpeg_worker
    svc_close,            \* svc_close[t]: where thread t is in close()
    \* ---- the HTTP handlers and the _JpegStore they read
    jp,                   \* _JpegStore: _jpeg and _timestamp_ns
    hd,                   \* hd[c]: the handler thread of connection c
    \* ---- frame pipeline, stage 1
    pl_last_ts,           \* _PipelineWorker._last_ts
    pl_out,               \* the processed-frame store: value and timestamp
    pl_tr,                \* history: pl_tr[ts]: the transform calls on raw frame ts
    je,                   \* _JpegEncoderWorker: its last_ts and the JPEG store it publishes to
    \* ---- pure functions
    pk,                   \* history: the last _pop_key call and its result
    md,                   \* history: the last MotorDriver.drive call and its set_wheels
    ss                    \* history: the last _step_servo_from_pressed call and its result

muxVars == <<entries, msrc, picked>>
loopVars == <<motor, servo, motor_mux, servo_mux, motor_failsafe_stop, ssrc,
              last_motor, last_servo, tk,
              absent_run, run_pre, run_drives, run_ok>>
runVars == <<loop_stop, run_pc, run_final, run_last_drive>>
storeVars == <<st_value, st_ts, st_lock, st_pc, st_loc, stop_event, st_committed>>
telThreadVars == <<tel_started, tel_thread, tel_stop, tel_thread_exc, tel_dev,
                   tel_stopping, tel_crash_quit>>
telVars == <<tel_cfg, tel_latest_motor, tel_last_motor_input_t, tel_pressed, usb_hist, tty,
             tel_quit, tel_ret, telThreadVars, tel_last_motor_refresh_t>>
drvVars == <<drv_kind, drv_seq, drv_latest, drv_stop, drv_thread, drv_closed,
             drv_poll, drv_stopper, drv_started, drv_stop_called, drv_ctl_closes,
             drv_pc, drv_loc>>
svcVars == <<svc_stop_event, svc_shutdown_request, svc_is_shut_down, svc_srv,
             svc_worker, svc_close>>
httpVars == <<jp, hd>>
plVars == <<pl_last_ts, pl_out, pl_tr, je>>
fnVars == <<pk, md, ss>>
vars == <<now, muxVars, loopVars, runVars, storeVars, telVars, drvVars, svcVars,
          httpVars, plVars, fnVars>>

\* What the actions of one component leave unchanged.
notLoop == <<storeVars, telVars, drvVars, svcVars, httpVars, plVars, fnVars>>
notCtl == <<runVars, notLoop>>
notStore == <<now, muxVars, loopVars, runVars, telVars, drvVars, svcVars,
              httpVars, plVars, fnVars>>
notTeleop == <<now, muxVars, loopVars, runVars, storeVars, drvVars, svcVars,
               httpVars, plVars, fnVars>>
notDriver == <<now, muxVars, loopVars, runVars, storeVars, telVars, svcVars,
               httpVars, plVars, fnVars>>
notStream == <<now, muxVars, loopVars, runVars, storeVars, telVars, drvVars,
               httpVars, plVars, fnVars>>
notHttp == <<now, muxVars, loopVars, runVars, storeVars, telVars, drvVars, svcVars,
             plVars, fnVars>>
notPipeline == <<now, muxVars, loopVars, runVars, storeVars, telVars, svcVars,
                 httpVars, fnVars>>
notFn == <<now, muxVars, loopVars, runVars, storeVars, telVars, drvVars, svcVars,
           httpVars, plVars>>

(***************************************************************************)
(* Bounds of the model.                                                    *)
(***************************************************************************)
MaxTime == 2
LoopMaxTime == 1
MaxRun == 2

\* Python's None, and an Optional holding a value, as records.
None == [some |-> FALSE]

Min(a, b) == IF a < b THEN a ELSE b

(***************************************************************************)
(* control/commands.py                                                     *)
(***************************************************************************)
MotorCommand(th, st, t) ==
    [some |-> TRUE, throttle |-> th, steer_differential |-> st, ts |-> t]

MotorCommandNow(th, st) == MotorCommand(th, st, now)

MotorCommandStop == MotorCommand(0, 0, now)

ServoCommand(p, tl, t) == [some |-> TRUE, pan |-> p, tilt |-> tl, ts |-> t]

ServoCommandNow(p, tl) == ServoCommand(p, tl, now)

\* A value of a generic source that carries no ts attribute.
UntimedValue(th) == [some |-> TRUE, throttle |-> th, steer_differential |-> 0]

(***************************************************************************)
(* control/mux.py                                                          *)
(***************************************************************************)
SourceEntry(src, age, prio) ==
    [source |-> src, max_age_s |-> age, priority |-> prio]

\* x placed behind every element of the sorted s whose priority is <= its own:
\* sorted() is stable.
RECURSIVE InsertByPriority(_, _)
InsertByPriority(x, s) ==
    IF s = <<>> THEN <<x>>
    ELSE IF Head(s).priority <= x.priority
         THEN <<Head(s)>> \o InsertByPriority(x, Tail(s))
         ELSE <<x>> \o s

RECURSIVE SortedByPriority(_)
SortedByPriority(es) ==
    IF es = <<>> THEN <<>>
    ELSE InsertByPriority(es[Len(es)], SortedByPriority(SubSeq(es, 1, Len(es) - 1)))

PriorityMuxInit_Unsorted(es) == es

\* PriorityMux.__init__: the entries, sorted ascending by priority, once.
PriorityMuxInit(es) == SortedByPriority(es)

HasTs(cmd) == "ts" \in DOMAIN cmd

Fresh_NoAgeCheck(cmd, e, t) == TRUE

\* (now - float(ts)) <= float(e.max_age_s)
Fresh(cmd, e, t) == (t - cmd.ts) <= e.max_age_s

RECURSIVE PickFrom_StopAtStale(_, _, _, _)
PickFrom_StopAtStale(es, lat, t, i) ==
    IF i > Len(es) THEN 0
    ELSE LET cmd == lat[es[i].source]
         IN  IF cmd = None THEN PickFrom_StopAtStale(es, lat, t, i + 1)
             ELSE IF ~HasTs(cmd) THEN i
             ELSE IF Fresh(cmd, es[i], t) THEN i
             ELSE 0

\* The loop of PriorityMux.pick() from entry i on: the index of the entry whose
\* command is returned, 0 when the loop runs off the end (return None).
RECURSIVE PickFrom(_, _, _, _)
PickFrom(es, lat, t, i) ==
    IF i > Len(es) THEN 0
    ELSE LET cmd == lat[es[i].source]
         IN  IF cmd = None THEN PickFrom(es, lat, t, i + 1)
             ELSE IF ~HasTs(cmd) THEN i
             ELSE IF Fresh(cmd, es[i], t) THEN i
             ELSE PickFrom(es, lat, t, i + 1)

\* PriorityMux.pick() at time t over the sources' current values.
Pick(es, lat, t) ==
    LET i == PickFrom(es, lat, t, 1)
    IN  IF i = 0 THEN None ELSE lat[es[i].source]

(***************************************************************************)
(* The mux on its own: sources emit, time passes, pick() is called.        *)
(***************************************************************************)
Sources == {1, 2}
Priorities == {0, 1}
MaxAges == {0, 1}
Throttles == {0, 1}

NoPick == [called |-> FALSE]

\* The SourceEntry lists a mux is constructed from: one entry per source, in the
\* caller's order, with any priority and max age.
EntryLists ==
    { [i \in 1..2 |-> SourceEntry(i, a[i], p[i])] :
        a \in [1..2 -> MaxAges], p \in [1..2 -> Priorities] }

MuxIdle ==
    /\ entries = <<>>
    /\ msrc = [s \in Sources |-> None]
    /\ picked = NoPick

MuxInit ==
    /\ \E es \in EntryLists : entries = PriorityMuxInit(es)
    /\ msrc = [s \in Sources |-> None]
    /\ picked = NoPick

\* A source produces a command: MotorCommand.now(...)
SourceEmit(s, th, st) ==
    /\ picked = NoPick
    /\ msrc' = [msrc EXCEPT ![s] = MotorCommandNow(th, st)]
    /\ UNCHANGED <<now, entries, picked, loopVars, notCtl>>

\* A source yields a value without a ts attribute.
SourceEmitUntimed(s, th) ==
    /\ picked = NoPick
    /\ msrc' = [msrc EXCEPT ![s] = UntimedValue(th)]
    /\ UNCHANGED <<now, entries, picked, loopVars, notCtl>>

\* Time passes, up to the horizon of the specification.
Advance(horizon) ==
    /\ picked = NoPick
    /\ now < horizon
    /\ now' = now + 1
    /\ UNCHANGED <<muxVars, loopVars, notCtl>>

\* PriorityMux.pick()
MuxPick ==
    /\ picked = NoPick
    /\ LET i == PickFrom(entries, msrc, now, 1)
       IN  picked' = [called |-> TRUE, idx |-> i, cmd |-> Pick(entries, msrc, now)]
    /\ UNCHANGED <<now, entries, msrc, loopVars, notCtl>>

\* The caller takes the result.
MuxReturn ==
    /\ picked # NoPick
    /\ picked' = NoPick
    /\ UNCHANGED <<now, entries, msrc, loopVars, notCtl>>

(***************************************************************************)
(* control/loop.py                                                         *)
(***************************************************************************)
Pans == {0, 1}
ServoSources == {1}

\* The servo mux: one source (as __main__.make_kb_muxs builds it).
servo_entries == PriorityMuxInit(<<SourceEntry(1, 0, 0)>>)

\* The motor mux of the control-loop specification: one source (as
\* __main__.make_kb_muxs builds it).
LoopSources == {1}
LoopEntryLists == { <<SourceEntry(1, 0, 0)>> }

Pair(a, b) == [some |-> TRUE, a |-> a, b |-> b]

NoTick == [ticked |-> FALSE]

\* The final drive(0, 0) of run_forever(): not reached yet.
NoFinal == [called |-> FALSE]

\* ControlLoop.__init__: the stop event is clear; run_forever() is not running.
RunInit ==
    /\ loop_stop = FALSE
    /\ run_pc = "idle"
    /\ run_final = NoFinal
    /\ run_last_drive = None

LoopIdle ==
    /\ motor = FALSE /\ servo = FALSE
    /\ motor_mux = FALSE /\ servo_mux = FALSE
    /\ motor_failsafe_stop = TRUE
    /\ ssrc = [s \in ServoSources |-> None]
    /\ last_motor = None /\ last_servo = None
    /\ tk = NoTick
    /\ absent_run = 0 /\ run_pre = None
    /\ run_drives = 0 /\ run_ok = 0
    /\ RunInit

\* ControlLoop.__init__: a mux is passed only together with its sink.
LoopInit ==
    /\ motor \in BOOLEAN /\ servo \in BOOLEAN
    /\ motor_mux = motor /\ servo_mux = servo
    /\ motor_failsafe_stop \in BOOLEAN
    /\ ssrc = [s \in ServoSources |-> None]
    /\ last_motor = None /\ last_servo = None
    /\ tk = NoTick
    /\ absent_run = 0 /\ run_pre = None
    /\ run_drives = 0 /\ run_ok = 0
    /\ RunInit

ServoEmit(s, p, tl) ==
    /\ ssrc' = [ssrc EXCEPT ![s] = ServoCommandNow(p, tl)]
    /\ UNCHANGED <<now, muxVars, motor, servo, motor_mux, servo_mux,
                   motor_failsafe_stop, last_motor, last_servo, tk,
                   absent_run, run_pre, run_drives, run_ok, notCtl>>

\* loop.py:80-81: the command the motor section works with, given pick()'s result.
FailsafeSubstitute_Never(cmd) == cmd

FailsafeSubstitute(cmd) ==
    IF cmd = None
    THEN (IF motor_failsafe_stop THEN MotorCommandStop ELSE None)
    ELSE cmd

\* loop.py:85 and loop.py:94: is the write issued?
Differs_Always(pair, last) == TRUE

Differs(pair, last) == pair # last

\* The sink calls of one tick(), in the order tick() makes them.
SinkCalls == {"drive", "set_pan", "set_tilt"}

\* The motor section of tick() (loop.py:78-87), given pick()'s result: what it
\* resolved, whether it called drive, whether that call raised.
TickMotor(mrun, mpick, raises) ==
    LET cmd  == IF mrun THEN FailsafeSubstitute(mpick) ELSE None
        pair == IF cmd = None THEN None
                ELSE Pair(cmd.throttle, cmd.steer_differential)
        call == cmd # None /\ Differs(pair, last_motor)
    IN  [absent |-> mrun /\ mpick = None,
         pair |-> pair,
         ts |-> IF cmd = None THEN {} ELSE {cmd.ts},
         call |-> call,
         raised |-> call /\ raises = "drive"]

TickServo_Centers(srun, scmd, raises) ==
    LET pair  == IF scmd = None THEN Pair(0, 0) ELSE Pair(scmd.pan, scmd.tilt)
        pcall == srun /\ Differs(pair, last_servo)
        tcall == pcall /\ raises # "set_pan"
    IN  [absent |-> srun /\ scmd = None,
         pair |-> IF srun THEN pair ELSE None,
         set_pan |-> pcall,
         set_tilt |-> tcall,
         raised |-> pcall /\ raises \in {"set_pan", "set_tilt"}]

\* The servo section of tick() (loop.py:90-97), given pick()'s result.
TickServo(srun, scmd, raises) ==
    LET pair  == IF scmd = None THEN None ELSE Pair(scmd.pan, scmd.tilt)
        pcall == srun /\ scmd # None /\ Differs(pair, last_servo)
        tcall == pcall /\ raises # "set_pan"
    IN  [absent |-> srun /\ scmd = None,
         pair |-> IF srun THEN pair ELSE None,
         set_pan |-> pcall,
         set_tilt |-> tcall,
         raised |-> pcall /\ raises \in {"set_pan", "set_tilt"}]

TickEffect_RemembersFirst(raises) ==
    \E mrun \in {motor /\ motor_mux} :
    \E mpick \in {IF mrun THEN Pick(entries, msrc, now) ELSE None} :
    \E m \in {TickMotor(mrun, mpick, raises)} :
    \E srun \in {~m.raised /\ servo /\ servo_mux} :
    \E scmd \in {IF srun THEN Pick(servo_entries, ssrc, now) ELSE None} :
    \E sv \in {TickServo(srun, scmd, raises)} :
    \E first \in {m.absent /\ absent_run = 0} :
        /\ last_motor' = IF m.call THEN m.pair ELSE last_motor
        /\ last_servo' = IF sv.set_pan THEN sv.pair ELSE last_servo
        /\ tk' = [ticked |-> TRUE,
                  n |-> IF tk = NoTick THEN 0 ELSE 1 - tk.n,
                  motor_absent |-> m.absent,
                  servo_absent |-> sv.absent,
                  m |-> m.pair, m_ts |-> m.ts,
                  same_m |-> tk # NoTick /\ m.pair # None /\ tk.m = m.pair,
                  ts_differs |-> tk # NoTick /\ tk.m_ts # {} /\ m.ts # {}
                                 /\ tk.m_ts # m.ts,
                  same_s |-> tk # NoTick /\ sv.pair # None /\ tk.s = sv.pair,
                  drive |-> m.call, drive_raised |-> m.raised,
                  s |-> sv.pair,
                  set_pan |-> sv.set_pan, set_tilt |-> sv.set_tilt,
                  servo_raised |-> sv.raised]
        /\ absent_run' = IF m.absent THEN Min(absent_run + 1, MaxRun) ELSE 0
        /\ run_pre' = IF ~m.absent THEN None
                      ELSE IF first THEN last_motor ELSE run_pre
        /\ run_drives' = IF ~m.absent THEN 0
                         ELSE Min((IF first THEN 0 ELSE run_drives)
                                  + (IF m.call THEN 1 ELSE 0), 2)
        /\ run_ok' = IF ~m.absent THEN 0
                     ELSE Min((IF first THEN 0 ELSE run_ok)
                              + (IF m.call /\ ~m.raised THEN 1 ELSE 0), 2)
        /\ run_last_drive' = IF m.call THEN m.pair ELSE run_last_drive
        /\ UNCHANGED <<now, muxVars, motor, servo, motor_mux, servo_mux,
                       motor_failsafe_stop, ssrc, notLoop>>

\* ControlLoop.tick(). raises: the sink call that raises, should tick() make it
\* ("none": every call returns). An exception leaves tick() at once, so a drive
\* that raises skips the servo section.
TickEffect(raises) ==
    \E mrun \in {motor /\ motor_mux} :
    \E mpick \in {IF mrun THEN Pick(entries, msrc, now) ELSE None} :
    \E m \in {TickMotor(mrun, mpick, raises)} :
    \E srun \in {~m.raised /\ servo /\ servo_mux} :
    \E scmd \in {IF srun THEN Pick(servo_entries, ssrc, now) ELSE None} :
    \E sv \in {TickServo(srun, scmd, raises)} :
    \E first \in {m.absent /\ absent_run = 0} :
        /\ last_motor' = IF m.call /\ ~m.raised THEN m.pair ELSE last_motor
        /\ last_servo' = IF sv.set_tilt /\ ~sv.raised THEN sv.pair ELSE last_servo
        /\ tk' = [ticked |-> TRUE,
                  n |-> IF tk = NoTick THEN 0 ELSE 1 - tk.n,
                  motor_absent |-> m.absent,
                  servo_absent |-> sv.absent,
                  m |-> m.pair, m_ts |-> m.ts,
                  same_m |-> tk # NoTick /\ m.pair # None /\ tk.m = m.pair,
                  ts_differs |-> tk # NoTick /\ tk.m_ts # {} /\ m.ts # {}
                                 /\ tk.m_ts # m.ts,
                  same_s |-> tk # NoTick /\ sv.pair # None /\ tk.s = sv.pair,
                  drive |-> m.call, drive_raised |-> m.raised,
                  s |-> sv.pair,
                  set_pan |-> sv.set_pan, set_tilt |-> sv.set_tilt,
                  servo_raised |-> sv.raised]
        /\ absent_run' = IF m.absent THEN Min(absent_run + 1, MaxRun) ELSE 0
        /\ run_pre' = IF ~m.absent THEN None
                      ELSE IF first THEN last_motor ELSE run_pre
        /\ run_drives' = IF ~m.absent THEN 0
                         ELSE Min((IF first THEN 0 ELSE run_drives)
                                  + (IF m.call THEN 1 ELSE 0), 2)
        /\ run_ok' = IF ~m.absent THEN 0
                     ELSE Min((IF first THEN 0 ELSE run_ok)
                              + (IF m.call /\ ~m.raised THEN 1 ELSE 0), 2)
        /\ run_last_drive' = IF m.call THEN m.pair ELSE run_last_drive
        /\ UNCHANGED <<now, muxVars, motor, servo, motor_mux, servo_mux,
                       motor_failsafe_stop, ssrc, notLoop>>

\* tick() called by the application itself, as __main__.run() does.
Tick(raises) ==
    /\ run_pc = "idle"
    /\ TickEffect(raises)
    /\ UNCHANGED <<loop_stop, run_pc, run_final>>

\* ControlLoop.stop()
LoopStop ==
    /\ loop_stop' = TRUE
    /\ UNCHANGED <<now, muxVars, loopVars, run_pc, run_final, run_last_drive, notLoop>>

\* run_forever() is called.
RunForever ==
    /\ run_pc = "idle"
    /\ run_pc' = "loop"
    /\ UNCHANGED <<now, muxVars, loopVars, loop_stop, run_final, run_last_drive, notLoop>>

\* Where run_forever() is after a tick(): an exception of tick() is not caught
\* and leaves run_forever().
AfterTick(raised) == IF raised THEN "raised" ELSE "loop"

\* `while not self._stop.is_set()`: the stop event is clear, tick() is next.
RunTest ==
    /\ run_pc = "loop"
    /\ ~loop_stop
    /\ run_pc' = "tick"
    /\ UNCHANGED <<now, muxVars, loopVars, loop_stop, run_final, run_last_drive, notLoop>>

\* self.tick(), in the loop of run_forever().
RunTick(raises) ==
    /\ run_pc = "tick"
    /\ TickEffect(raises)
    /\ run_pc' = AfterTick(tk'.drive_raised \/ tk'.servo_raised)
    /\ UNCHANGED <<loop_stop, run_final>>

\* The loop is left on the stop event; the final stop is due with a motor sink
\* and failsafe-stop enabled.
RunExit ==
    /\ run_pc = "loop"
    /\ loop_stop
    /\ run_pc' = IF motor /\ motor_failsafe_stop THEN "final" ELSE "returned"
    /\ UNCHANGED <<now, muxVars, loopVars, loop_stop, run_final, run_last_drive, notLoop>>

\* try: self._motor.drive(0, 0) except Exception: pass
RunFinal(raises) ==
    /\ run_pc = "final"
    /\ run_final' = [called |-> TRUE, raised |-> raises, last |-> last_motor]
    /\ run_last_drive' = Pair(0, 0)
    /\ run_pc' = "returned"
    /\ UNCHANGED <<now, muxVars, loopVars, loop_stop, notLoop>>

(***************************************************************************)
(* vision/latest_store.py (and the same code in stream_service._JpegStore) *)
(*                                                                         *)
(* Threads call set(), get() and wait_newer() concurrently; a step is one  *)
(* statement of the method, or the run of statements up to the next place  *)
(* where the lock changes hands.                                           *)
(***************************************************************************)
Stamps == {1, 2}

Writers == {"w1", "w2"}
Getters == {"g1"}
Waiters == {"r1", "r2"}
Threads == Writers \cup Getters \cup Waiters

Free == "free"

\* The value a set(value, timestamp_ns=t) call passes: the frame stamped t.
Frame(t) == [some |-> TRUE, stamp |-> t]

StorePair(v, t) == [value |-> v, ts |-> t]

NoLocals == [call |-> "none"]

StoreInit ==
    /\ st_value = None
    /\ st_ts = 0
    /\ st_lock = Free
    /\ st_pc = [t \in Threads |-> "idle"]
    /\ st_loc = [t \in Threads |-> NoLocals]
    /\ stop_event = FALSE
    /\ st_committed = StorePair(None, 0)

Acquire_Unguarded(t) == TRUE

\* `with self._lock` / `with self._cond`: thread t may enter when the lock is free.
Acquire(t) == st_lock = Free

Notified_Nobody(pcs) == pcs

\* self._cond.notify_all(): every thread blocked in self._cond.wait() is woken.
Notified(pcs) ==
    [t \in DOMAIN pcs |-> IF pcs[t] = "wn_waiting" THEN "wn_woken" ELSE pcs[t]]

\* ---- set(value, timestamp_ns)
SetCall(w, t) ==
    /\ st_pc[w] = "idle"
    /\ st_pc' = [st_pc EXCEPT ![w] = "set_enter"]
    /\ st_loc' = [st_loc EXCEPT ![w] = [call |-> "set", value |-> Frame(t), ts |-> t]]
    /\ UNCHANGED <<st_value, st_ts, st_lock, stop_event, st_committed, notStore>>

SetAcquire(w) ==
    /\ st_pc[w] = "set_enter"
    /\ Acquire(w)
    /\ st_lock' = w
    /\ st_pc' = [st_pc EXCEPT ![w] = "set_value"]
    /\ UNCHANGED <<st_value, st_ts, st_loc, stop_event, st_committed, notStore>>

\* self._value = value
SetValue(w) ==
    /\ st_pc[w] = "set_value"
    /\ st_value' = st_loc[w].value
    /\ st_pc' = [st_pc EXCEPT ![w] = "set_ts"]
    /\ UNCHANGED <<st_ts, st_lock, st_loc, stop_event, st_committed, notStore>>

\* self._timestamp_ns = int(timestamp_ns)
SetTs(w) ==
    /\ st_pc[w] = "set_ts"
    /\ st_ts' = st_loc[w].ts
    /\ st_pc' = [st_pc EXCEPT ![w] = "set_notify"]
    /\ UNCHANGED <<st_value, st_lock, st_loc, stop_event, st_committed, notStore>>

\* self._cond.notify_all(), and the end of the with block.
SetNotify(w) ==
    /\ st_pc[w] = "set_notify"
    /\ st_pc' = [Notified(st_pc) EXCEPT ![w] = "idle"]
    /\ st_lock' = Free
    /\ st_committed' = StorePair(st_loc[w].value, st_loc[w].ts)
    /\ st_loc' = [st_loc EXCEPT ![w] = NoLocals]
    /\ UNCHANGED <<st_value, st_ts, stop_event, notStore>>

\* ---- get()
GetCall(g) ==
    /\ st_pc[g] = "idle"
    /\ st_pc' = [st_pc EXCEPT ![g] = "get_enter"]
    /\ st_loc' = [st_loc EXCEPT ![g] = [call |-> "get"]]
    /\ UNCHANGED <<st_value, st_ts, st_lock, stop_event, st_committed, notStore>>

GetAcquire(g) ==
    /\ st_pc[g] = "get_enter"
    /\ Acquire(g)
    /\ st_lock' = g
    /\ st_pc' = [st_pc EXCEPT ![g] = "get_value"]
    /\ st_loc' = [st_loc EXCEPT ![g] = [call |-> "get", latest |-> st_committed]]
    /\ UNCHANGED <<st_value, st_ts, stop_event, st_committed, notStore>>

\* return self._value, self._timestamp_ns: the first element is read
GetValue(g) ==
    /\ st_pc[g] = "get_value"
    /\ st_pc' = [st_pc EXCEPT ![g] = "get_ts"]
    /\ st_loc' = [st_loc EXCEPT ![g] =
                     [call |-> "get", latest |-> st_loc[g].latest, v |-> st_value]]
    /\ UNCHANGED <<st_value, st_ts, st_lock, stop_event, st_committed, notStore>>

\* the second element is read, the lock released and the pair returned
GetTs(g) ==
    /\ st_pc[g] = "get_ts"
    /\ st_pc' = [st_pc EXCEPT ![g] = "get_done"]
    /\ st_loc' = [st_loc EXCEPT ![g] =
                     [call |-> "get", latest |-> st_loc[g].latest,
                      ret |-> StorePair(st_loc[g].v, st_ts)]]
    /\ st_lock' = Free
    /\ UNCHANGED <<st_value, st_ts, stop_event, st_committed, notStore>>

\* ---- wait_newer(last_timestamp_ns, stop_event, timeout_s)
\* expired: the deadline computed at entry has passed.
WaitCall(r, last) ==
    /\ st_pc[r] = "idle"
    /\ st_pc' = [st_pc EXCEPT ![r] = "wn_enter"]
    /\ st_loc' = [st_loc EXCEPT ![r] =
                     [call |-> "wait_newer", last |-> last, expired |-> FALSE]]
    /\ UNCHANGED <<st_value, st_ts, st_lock, stop_event, st_committed, notStore>>

\* `with self._cond` at entry, and the re-acquisition when wait() returns.
WaitAcquire(r) ==
    /\ st_pc[r] \in {"wn_enter", "wn_woken"}
    /\ Acquire(r)
    /\ st_lock' = r
    /\ st_pc' = [st_pc EXCEPT ![r] = "wn_top"]
    /\ UNCHANGED <<st_value, st_ts, st_loc, stop_event, st_committed, notStore>>

\* What wait_newer hands back: the value with the stored timestamp when it found
\* a newer one, otherwise None with the caller's last_timestamp_ns.
WaitResult(l, v, t, why) ==
    [call |-> "wait_newer", last |-> l.last, expired |-> l.expired, why |-> why,
     ret |-> IF why = "newer" THEN StorePair(v, t) ELSE StorePair(None, l.last)]

\* while not stop_event.is_set(): v = self._value   (or the return after the loop)
WaitTop(r) ==
    /\ st_pc[r] = "wn_top"
    /\ IF stop_event
       THEN /\ st_pc' = [st_pc EXCEPT ![r] = "wn_done"]
            /\ st_loc' = [st_loc EXCEPT ![r] = WaitResult(st_loc[r], st_value, st_ts, "stop")]
            /\ st_lock' = Free
       ELSE /\ st_pc' = [st_pc EXCEPT ![r] = "wn_check"]
            /\ st_loc' = [st_loc EXCEPT ![r] =
                             [call |-> "wait_newer", last |-> st_loc[r].last,
                              expired |-> st_loc[r].expired, v |-> st_value]]
            /\ UNCHANGED st_lock
    /\ UNCHANGED <<st_value, st_ts, stop_event, st_committed, notStore>>

IsNewer_AnyValue(v, t, last) == v # None

\* if v is not None and ts != last_timestamp_ns
IsNewer(v, t, last) == v # None /\ t # last

\* ts = self._timestamp_ns; return the newer value, or return on timeout, or
\* self._cond.wait(timeout=remaining), which releases the lock.
WaitCheck(r) ==
    /\ st_pc[r] = "wn_check"
    /\ LET l == st_loc[r]
       IN  IF IsNewer(l.v, st_ts, l.last)
           THEN /\ st_pc' = [st_pc EXCEPT ![r] = "wn_done"]
                /\ st_loc' = [st_loc EXCEPT ![r] = WaitResult(l, l.v, st_ts, "newer")]
           ELSE IF l.expired
           THEN /\ st_pc' = [st_pc EXCEPT ![r] = "wn_done"]
                /\ st_loc' = [st_loc EXCEPT ![r] = WaitResult(l, l.v, st_ts, "timeout")]
           ELSE /\ st_pc' = [st_pc EXCEPT ![r] = "wn_waiting"]
                /\ st_loc' = [st_loc EXCEPT ![r] =
                                 [call |-> "wait_newer", last |-> l.last,
                                  expired |-> FALSE]]
    /\ st_lock' = Free
    /\ UNCHANGED <<st_value, st_ts, stop_event, st_committed, notStore>>

\* The deadline passes; a thread blocked in wait(timeout=remaining) wakes.
Expire(r) ==
    /\ st_pc[r] \in {"wn_enter", "wn_top", "wn_check", "wn_waiting", "wn_woken"}
    /\ ~st_loc[r].expired
    /\ st_loc' = [st_loc EXCEPT ![r].expired = TRUE]
    /\ st_pc' = [st_pc EXCEPT ![r] = IF @ = "wn_waiting" THEN "wn_woken" ELSE @]
    /\ UNCHANGED <<st_value, st_ts, st_lock, stop_event, st_committed, notStore>>

\* The caller takes the result of get() or wait_newer().
Return(t) ==
    /\ st_pc[t] \in {"get_done", "wn_done"}
    /\ st_pc' = [st_pc EXCEPT ![t] = "idle"]
    /\ st_loc' = [st_loc EXCEPT ![t] = NoLocals]
    /\ UNCHANGED <<st_value, st_ts, st_lock, stop_event, st_committed, notStore>>

\* The owner of the stop event sets it.
StopEventSet ==
    /\ ~stop_event
    /\ stop_event' = TRUE
    /\ UNCHANGED <<st_value, st_ts, st_lock, st_pc, st_loc, st_committed, notStore>>


(***************************************************************************)
(* inputs/terminal_kb_teleop.py, inputs/usb_kb_teleop.py and the legacy    *)
(* inputs/keyboard_teleop.py                                               *)
(*                                                                         *)
(* A key is named by the keymap entry it belongs to.  The input thread and *)
(* the callers of latest_motor() exclude each other with Teleop._lock, so  *)
(* one pass of the input loop and one latest_motor() call are one step     *)
(* each.                                                                   *)
(***************************************************************************)
TelMaxTime == 2

TeleopKinds == {"terminal", "usb", "legacy"}

Deadmans == {1, 2}

TeleopConfigs ==
    [kind : TeleopKinds, deadman_s : Deadmans, invert_steer : BOOLEAN,
     speed : {1}, steer : {1}]

MotorKeys == {"motor_stop", "motor_forward", "motor_backward", "motor_right",
              "motor_left", "motor_fwd_right", "motor_fwd_left",
              "motor_back_right", "motor_back_left"}

TerminalKeys == MotorKeys \cup {"quit", "servo"}

UsbTokens == {"motor_stop", "motor_forward", "motor_backward", "motor_right",
              "motor_fwd_right", "motor_back_left", "quit"}

\* 1 when key k is in the pressed set, else 0.
Held01(pressed, k) == IF k \in pressed THEN 1 ELSE 0

\* keystate of a key event: 0 = UP, 1 = DOWN, 2 = HOLD
KeyStates == {0, 1, 2}

NoCall == [called |-> FALSE]

\* The history of the key events of the tokens in W, none read yet: for each
\* token the keystate of the last event read (-1: none), over the life of
\* the teleop and since the last start().
History(W) == [last |-> [t \in W |-> 0 - 1], since |-> [t \in W |-> 0 - 1]]

\* No token is followed.
NoHistory == History({})

\* The terminal with the attributes and file-status flags given, no _loop
\* running on it.
Tty(attrs, flags) ==
    [attrs |-> attrs, flags |-> flags, old_attrs |-> attrs, old_flags |-> flags,
     pc |-> "none"]

\* _loop: old_term = termios.tcgetattr(fd); old_flags = fcntl.fcntl(fd, F_GETFL)
TtySaved(t) == [t EXCEPT !.old_attrs = t.attrs, !.old_flags = t.flags, !.pc = "saved"]

TtyRestored_AttrsOnly(t) == [t EXCEPT !.attrs = t.old_attrs, !.pc = "none"]

\* _loop, finally: termios.tcsetattr(fd, TCSADRAIN, old_term);
\* fcntl.fcntl(fd, F_SETFL, old_flags)
TtyRestored(t) ==
    [t EXCEPT !.attrs = t.old_attrs, !.flags = t.old_flags, !.pc = "none"]

\* _loop inside `try`, one call at a time: tty.setraw(fd), then
\* fcntl.fcntl(fd, F_SETFL, old_flags | os.O_NONBLOCK).
TtySetup ==
    /\ tel_cfg.kind = "terminal"
    /\ tel_thread = "running"
    /\ tty.pc \in {"saved", "raw"}
    /\ tty' = IF tty.pc = "saved"
              THEN [tty EXCEPT !.attrs = "raw", !.pc = "raw"]
              ELSE [tty EXCEPT !.flags = tty.old_flags \cup {"O_NONBLOCK"}, !.pc = "loop"]
    /\ UNCHANGED <<tel_cfg, tel_latest_motor, tel_last_motor_input_t, tel_pressed,
                   usb_hist, tel_quit, tel_ret, telThreadVars,
                   tel_last_motor_refresh_t, notTeleop>>

\* The history after the event ev was read (dev.read(), usb_kb_teleop.py:275).
Recorded(h, ev) ==
    [last |-> [t \in DOMAIN h.last |-> IF t = ev.token THEN ev.keystate ELSE h.last[t]],
     since |-> [t \in DOMAIN h.since |-> IF t = ev.token THEN ev.keystate ELSE h.since[t]]]

\* Teleop.__init__: no thread, no device, the events clear.
TeleopUnstarted ==
    /\ tel_started = FALSE
    /\ tel_thread = "none"
    /\ tel_stop = FALSE
    /\ tel_thread_exc = FALSE
    /\ tel_dev = "none"
    /\ tel_stopping = FALSE
    /\ tel_crash_quit = FALSE

TeleopIdle ==
    /\ tel_cfg = [kind |-> "terminal", deadman_s |-> 1, invert_steer |-> FALSE,
                  speed |-> 1, steer |-> 1]
    /\ tel_latest_motor = None
    /\ tel_last_motor_input_t = 0
    /\ tel_pressed = {}
    /\ usb_hist = NoHistory /\ tty = Tty("cooked", {})
    /\ tel_quit = FALSE
    /\ tel_ret = NoCall
    /\ TeleopUnstarted
    /\ tel_last_motor_refresh_t = 0

\* Teleop.__init__
TeleopInit ==
    /\ tel_cfg \in TeleopConfigs
    /\ tel_latest_motor = None
    /\ tel_last_motor_input_t = now
    /\ tel_pressed = {}
    /\ tel_quit = FALSE
    /\ tel_ret = NoCall
    /\ TeleopUnstarted
    /\ tel_last_motor_refresh_t = now

\* The teleop after start() has returned: the input thread is in its _loop
\* (the USB teleop has opened its device).
TeleopStarted ==
    /\ tel_cfg \in TeleopConfigs
    /\ tel_latest_motor = None
    /\ tel_last_motor_input_t = now
    /\ tel_pressed = {}
    /\ tel_quit = FALSE
    /\ tel_ret = NoCall
    /\ tel_started = TRUE
    /\ tel_thread = "running"
    /\ tel_stop = FALSE
    /\ tel_thread_exc = FALSE
    /\ tel_dev = IF tel_cfg.kind = "usb" THEN "open" ELSE "none"
    /\ tel_stopping = FALSE
    /\ tel_crash_quit = FALSE
    /\ tel_last_motor_refresh_t = now

\* The teleop as the threads see it: [latest, last_t, quit].
TeleopState(latest, last_t, quit) == [latest |-> latest, last_t |-> last_t, quit |-> quit]

\* _set_motor(throttle, steer_differential)
SetMotor(st, throttle, steer_differential) ==
    [st EXCEPT !.latest = MotorCommandNow(throttle,
                              IF tel_cfg.invert_steer
                              THEN 0 - steer_differential ELSE steer_differential),
               !.last_t = now]

\* _handle_key(k) of the terminal and the legacy teleop
HandleKey(st, k) ==
    LET speed == tel_cfg.speed
        steer == tel_cfg.steer
    IN  CASE k = "quit"             -> [st EXCEPT !.quit = TRUE]
          [] k = "motor_stop"       -> SetMotor(st, 0, 0)
          [] k = "motor_forward"    -> SetMotor(st, speed, 0)
          [] k = "motor_backward"   -> SetMotor(st, 0 - speed, 0)
          [] k = "motor_right"      -> SetMotor(st, 0, steer)
          [] k = "motor_left"       -> SetMotor(st, 0, 0 - steer)
          [] k = "motor_fwd_right"  -> SetMotor(st, speed, steer)
          [] k = "motor_fwd_left"   -> SetMotor(st, speed, 0 - steer)
          [] k = "motor_back_right" -> SetMotor(st, 0 - speed, 0 - steer)
          [] k = "motor_back_left"  -> SetMotor(st, 0 - speed, steer)
          [] OTHER                  -> st

RECURSIVE HandleKeys(_, _)
HandleKeys(st, ks) ==
    IF ks = <<>> THEN st ELSE HandleKeys(HandleKey(st, Head(ks)), Tail(ks))

KeyBatches == {<<k>> : k \in TerminalKeys} \cup
              {<<j, k>> : j \in {"quit", "motor_forward"}, k \in {"motor_left", "servo"}}

\* One pass of the terminal (or legacy) _loop: the bytes read are decoded and
\* every key in the buffer is handled.
TerminalRead(ks) ==
    /\ tel_cfg.kind \in {"terminal", "legacy"}
    /\ tel_thread = "running"
    /\ ~tel_stop
    /\ ~tel_quit
    /\ \E st \in {HandleKeys(TeleopState(tel_latest_motor, tel_last_motor_input_t,
                                         tel_quit), ks)} :
           /\ tel_latest_motor' = st.latest
           /\ tel_last_motor_input_t' = st.last_t
           /\ tel_quit' = st.quit
    /\ UNCHANGED <<tel_cfg, tel_pressed, usb_hist, tty, tel_ret, telThreadVars,
                   tel_last_motor_refresh_t, notTeleop>>

RecomputeMotor_DiagonalFirst(st, pressed) ==
    LET speed == tel_cfg.speed
        steer == tel_cfg.steer
        throttle == (IF "motor_forward" \in pressed THEN speed ELSE 0)
                    - (IF "motor_backward" \in pressed THEN speed ELSE 0)
        steer_val == (IF "motor_right" \in pressed THEN steer ELSE 0)
                     - (IF "motor_left" \in pressed THEN steer ELSE 0)
    IN  IF "motor_fwd_right" \in pressed THEN SetMotor(st, speed, steer)
        ELSE IF "motor_fwd_left" \in pressed THEN SetMotor(st, speed, 0 - steer)
        ELSE IF "motor_back_right" \in pressed THEN SetMotor(st, 0 - speed, 0 - steer)
        ELSE IF "motor_back_left" \in pressed THEN SetMotor(st, 0 - speed, steer)
        ELSE IF "motor_stop" \in pressed THEN SetMotor(st, 0, 0)
        ELSE IF throttle = 0 /\ steer_val = 0 THEN st
        ELSE SetMotor(st, throttle, steer_val)

\* _recompute_motor() of the USB teleop
RecomputeMotor(st, pressed) ==
    LET speed == tel_cfg.speed
        steer == tel_cfg.steer
        throttle == (IF "motor_forward" \in pressed THEN speed ELSE 0)
                    - (IF "motor_backward" \in pressed THEN speed ELSE 0)
        steer_val == (IF "motor_right" \in pressed THEN steer ELSE 0)
                     - (IF "motor_left" \in pressed THEN steer ELSE 0)
    IN  IF "motor_stop" \in pressed THEN SetMotor(st, 0, 0)
        ELSE IF "motor_fwd_right" \in pressed THEN SetMotor(st, speed, steer)
        ELSE IF "motor_fwd_left" \in pressed THEN SetMotor(st, speed, 0 - steer)
        ELSE IF "motor_back_right" \in pressed THEN SetMotor(st, 0 - speed, 0 - steer)
        ELSE IF "motor_back_left" \in pressed THEN SetMotor(st, 0 - speed, steer)
        ELSE IF throttle = 0 /\ steer_val = 0 THEN st
        ELSE SetMotor(st, throttle, steer_val)

NoEvent == [token |-> "none", keystate |-> 0]

KeyEvents == [token : UsbTokens, keystate : KeyStates] \cup {NoEvent}

Pressed_DownOnly(pressed, ev) ==
    IF ev = NoEvent THEN pressed
    ELSE IF ev.keystate = 1 THEN pressed \cup {ev.token}
    ELSE pressed \ {ev.token}

\* self._pressed after the event (usb_kb_teleop.py:288-292).
Pressed(pressed, ev) ==
    IF ev = NoEvent THEN pressed
    ELSE IF ev.keystate \in {1, 2} THEN pressed \cup {ev.token}
    ELSE pressed \ {ev.token}

\* _MOTOR_REFRESH_S, the unit of the teleop's clock.
RefreshPeriod == 1

\* (now - last_motor_refresh_t) >= self._MOTOR_REFRESH_S
RefreshDue == (now - tel_last_motor_refresh_t) >= RefreshPeriod

\* One pass of the USB _loop: the key event read (if any) updates the pressed
\* set and the motor command; then, when the refresh period has passed, the
\* motor command is refreshed if a motor key is held.
UsbLoop(ev, refresh_due) ==
    /\ tel_cfg.kind = "usb"
    /\ tel_thread = "running"
    /\ ~tel_stop
    /\ ~tel_quit
    /\ \E pressed \in {Pressed(tel_pressed, ev)} :
       \E st0 \in {TeleopState(tel_latest_motor, tel_last_motor_input_t, tel_quit)} :
       \E st1 \in {IF ev = NoEvent THEN st0
                   ELSE IF ev.keystate = 1 /\ ev.token = "quit"
                   THEN [st0 EXCEPT !.quit = TRUE]
                   ELSE IF ev.token \in MotorKeys THEN RecomputeMotor(st0, pressed)
                   ELSE st0} :
       \E st2 \in {IF refresh_due /\ pressed \cap MotorKeys # {}
                   THEN RecomputeMotor(st1, pressed) ELSE st1} :
           /\ tel_pressed' = pressed
           /\ tel_latest_motor' = st2.latest
           /\ tel_last_motor_input_t' = st2.last_t
           /\ tel_quit' = st2.quit
    /\ tel_last_motor_refresh_t' = IF refresh_due THEN now ELSE tel_last_motor_refresh_t
    /\ usb_hist' = Recorded(usb_hist, ev)
    /\ UNCHANGED <<tel_cfg, tty, tel_ret, telThreadVars, notTeleop>>

\* start() of the terminal and the USB teleop clears _quit; the legacy
\* teleop's start() leaves it as it is.
QuitAfterStart(kind, quit) == IF kind = "legacy" THEN quit ELSE FALSE

\* The input thread has ended.
TelEnded == tel_thread \in {"none", "exited", "crashed"}

\* start(): it clears the events and the stored exception and spawns the
\* thread, which enters _loop (the USB teleop opens its device first).  It
\* raises when _thread is not None.  It is called again only after stop(),
\* when the thread of the previous start() has ended.
TelStart ==
    /\ ~tel_started
    /\ ~tel_stopping
    /\ TelEnded
    /\ tel_started' = TRUE
    /\ tel_stop' = FALSE
    /\ tel_quit' = QuitAfterStart(tel_cfg.kind, tel_quit)
    /\ tel_crash_quit' = QuitAfterStart(tel_cfg.kind, tel_crash_quit)
    /\ tel_thread_exc' = FALSE
    /\ tel_dev' = IF tel_cfg.kind = "usb" THEN "open" ELSE tel_dev
    /\ tel_thread' = "running"
    /\ tel_last_motor_refresh_t' = now
    /\ usb_hist' = [usb_hist EXCEPT !.since = History(DOMAIN usb_hist.last).since]
    /\ tty' = IF tel_cfg.kind = "terminal" THEN TtySaved(tty) ELSE tty
    /\ UNCHANGED <<tel_cfg, tel_latest_motor, tel_last_motor_input_t, tel_pressed,
                   tel_ret, tel_stopping, notTeleop>>

\* _close_device(): the device, if there is one, is closed and forgotten.
CloseDevice(dev) == IF dev = "open" THEN "closed" ELSE dev

\* stop(): self._stop.set(); t = self._thread; self._thread = None; with no
\* thread to join the USB teleop closes its device at once.
TelStopSignal ==
    /\ ~tel_stopping
    /\ tel_stop' = TRUE
    /\ tel_started' = FALSE
    /\ tel_stopping' = tel_started
    /\ tel_dev' = IF tel_started THEN tel_dev ELSE CloseDevice(tel_dev)
    /\ UNCHANGED <<tel_cfg, tel_latest_motor, tel_last_motor_input_t, tel_pressed, usb_hist, tty,
                   tel_quit, tel_ret, tel_thread, tel_thread_exc, tel_crash_quit,
                   tel_last_motor_refresh_t, notTeleop>>

\* stop(): t.join(timeout=1.0) returns, because the thread has ended or
\* because the second has passed; the USB teleop then closes its device.
TelStopJoin(timed_out) ==
    /\ tel_stopping
    /\ timed_out \/ TelEnded
    /\ tel_stopping' = FALSE
    /\ tel_dev' = CloseDevice(tel_dev)
    /\ UNCHANGED <<tel_cfg, tel_latest_motor, tel_last_motor_input_t, tel_pressed, usb_hist, tty,
                   tel_quit, tel_ret, tel_started, tel_thread, tel_stop,
                   tel_thread_exc, tel_crash_quit, tel_last_motor_refresh_t,
                   notTeleop>>

\* _loop: `while not self._stop.is_set() and not self._quit.is_set()` ends, the
\* terminal teleop's `finally` restores the terminal, and _thread_main ends.
TelLoopExit ==
    /\ tel_thread = "running"
    /\ tel_stop \/ tel_quit
    /\ tel_thread' = "exited"
    /\ tty' = IF tel_cfg.kind = "terminal" THEN TtyRestored(tty) ELSE tty
    /\ UNCHANGED <<tel_cfg, tel_latest_motor, tel_last_motor_input_t, tel_pressed, usb_hist,
                   tel_quit, tel_ret, tel_started, tel_stop, tel_thread_exc, tel_dev,
                   tel_stopping, tel_crash_quit, tel_last_motor_refresh_t, notTeleop>>

\* _loop raises (a failed read, a device that went away): the terminal
\* teleop's `finally` restores the terminal, and _thread_main catches the
\* exception.
TelLoopRaises ==
    /\ tel_thread = "running"
    /\ tel_thread' = "caught"
    /\ tty' = IF tel_cfg.kind = "terminal" THEN TtyRestored(tty) ELSE tty
    /\ UNCHANGED <<tel_cfg, tel_latest_motor, tel_last_motor_input_t, tel_pressed, usb_hist,
                   tel_quit, tel_ret, tel_started, tel_stop, tel_thread_exc, tel_dev,
                   tel_stopping, tel_crash_quit, tel_last_motor_refresh_t, notTeleop>>

CrashOrder_QuitFirst == <<"quit", "store">>

\* The handler of _thread_main: with self._lock: self._thread_exc = e; then
\* self._quit.set()
CrashOrder == <<"store", "quit">>

\* One statement of the handler.
TelCrashHandler ==
    /\ tel_thread \in {"caught", "caught2"}
    /\ \E what \in {CrashOrder[IF tel_thread = "caught" THEN 1 ELSE 2]} :
           /\ tel_thread_exc' = (what = "store" \/ tel_thread_exc)
           /\ tel_quit' = (what = "quit" \/ tel_quit)
           /\ tel_crash_quit' = (what = "quit" \/ tel_crash_quit)
    /\ tel_thread' = IF tel_thread = "caught" THEN "caught2" ELSE "crashed"
    /\ UNCHANGED <<tel_cfg, tel_latest_motor, tel_last_motor_input_t, tel_pressed, usb_hist, tty,
                   tel_ret, tel_started, tel_stop, tel_dev, tel_stopping,
                   tel_last_motor_refresh_t, notTeleop>>

DeadmanTripped_Late(age, deadman_s) == age > deadman_s

\* (monotonic() - self._last_motor_input_t) >= float(self._cfg.deadman_s)
DeadmanTripped(age, deadman_s) == age >= deadman_s

\* latest_motor(), and MotorSource.latest() which calls it
LatestMotor ==
    /\ tel_ret' = [called |-> TRUE,
                   at |-> now,
                   stored |-> tel_latest_motor,
                   age |-> now - tel_last_motor_input_t,
                   ret |-> IF tel_latest_motor = None THEN None
                           ELSE IF DeadmanTripped(now - tel_last_motor_input_t,
                                                  tel_cfg.deadman_s)
                           THEN MotorCommandStop
                           ELSE tel_latest_motor]
    /\ UNCHANGED <<tel_cfg, tel_latest_motor, tel_last_motor_input_t, tel_pressed, usb_hist, tty,
                   tel_quit, telThreadVars, tel_last_motor_refresh_t, notTeleop>>


(***************************************************************************)
(* drivers/infrared_driver.py, drivers/ultrasonic_driver.py and            *)
(* drivers/camera_driver.py                                                *)
(*                                                                         *)
(* Every block that runs under Driver._lock is one step.  stop() may be    *)
(* called by two threads at once; start() is called while no stop() is     *)
(* under way; wait_next() is called by other threads.                      *)
(***************************************************************************)
MaxSeq == 3

MaxThreads == 2

DriverKinds == {"infrared", "ultrasonic", "camera"}

Callers == {"c1"}

Stoppers == {"s1", "s2"}

\* CameraPolicy.retries
Retries == 1

\* What the three channels of the infrared capability read: <<left, middle, right>>.
ChannelReads == {<<0, 0, 0>>, <<1, 0, 1>>}

\* A distance the ultrasonic capability reads.
Dist(cm) == [some |-> TRUE, cm |-> cm]

\* What read_distance() returns: a distance or None.
DistanceReads == {None, Dist(10)}

\* A frame the camera capability reads.
BGRFrame(n) == [some |-> TRUE, timestamp |-> n]

InfraredSample_StaleSeq(l, m, r, seq) ==
    [some |-> TRUE, left |-> l, middle |-> m, right |-> r,
     bits |-> l * 4 + m * 2 + r, seq |-> seq - 1]

\* InfraredSample(left, middle, right, bits, seq) as _loop builds it.
InfraredSample(l, m, r, seq) ==
    [some |-> TRUE, left |-> l, middle |-> m, right |-> r,
     bits |-> l * 4 + m * 2 + r, seq |-> seq]

\* last_seq of wait_next: {} for None, {n} for the integer n.
LastSeqs == {{}} \cup {{n} : n \in 0..MaxSeq}

PollAt(pc) == [pc |-> pc]

PollThreads == 1..Len(drv_poll)

\* The thread has returned from _loop, or an exception has ended it.
Ended(i) == drv_poll[i].pc \in {"exited", "crashed"}

NoStart == [called |-> FALSE]

DriverIdle ==
    /\ drv_kind = "infrared"
    /\ drv_seq = 0
    /\ drv_latest = None
    /\ drv_stop = FALSE
    /\ drv_thread = FALSE
    /\ drv_closed = FALSE
    /\ drv_poll = <<>>
    /\ drv_stopper = [s \in Stoppers |-> "idle"]
    /\ drv_started = NoStart
    /\ drv_stop_called = FALSE
    /\ drv_ctl_closes = 0
    /\ drv_pc = [c \in Callers |-> "idle"]
    /\ drv_loc = [c \in Callers |-> NoLocals]

\* Driver.__init__
DriverInit ==
    /\ drv_kind \in DriverKinds
    /\ drv_seq = 0
    /\ drv_latest = None
    /\ drv_stop = FALSE
    /\ drv_thread = FALSE
    /\ drv_closed = FALSE
    /\ drv_poll = <<>>
    /\ drv_stopper = [s \in Stoppers |-> "idle"]
    /\ drv_started = NoStart
    /\ drv_stop_called = FALSE
    /\ drv_ctl_closes = 0
    /\ drv_pc = [c \in Callers |-> "idle"]
    /\ drv_loc = [c \in Callers |-> NoLocals]

\* start(): if self._thread is not None: raise; if self._closed: raise
\* (the camera driver has no _closed).
StartRaises(kind, thread, closed) == thread \/ (kind # "camera" /\ closed)

\* start(): it raises, or it clears the stop event and spawns the thread.
DriverStart ==
    /\ \A s \in Stoppers : drv_stopper[s] = "idle"
    /\ \E raised \in {StartRaises(drv_kind, drv_thread, drv_closed)} :
        /\ raised \/ Len(drv_poll) < MaxThreads
        /\ drv_started' = [called |-> TRUE, running |-> drv_thread,
                           stopped |-> drv_stop_called, raised |-> raised,
                           spawned |-> ~raised]
        /\ IF raised
           THEN UNCHANGED <<drv_stop, drv_thread, drv_poll>>
           ELSE /\ drv_stop' = FALSE
                /\ drv_thread' = TRUE
                /\ drv_poll' = Append(drv_poll, PollAt("top"))
    /\ UNCHANGED <<drv_kind, drv_seq, drv_latest, drv_closed, drv_stopper,
                   drv_stop_called, drv_ctl_closes, drv_pc, drv_loc, notDriver>>

\* stop(): self._stop.set(); thread = self._thread; self._thread = None
DriverStopSignal(s) ==
    /\ drv_stopper[s] = "idle"
    /\ drv_stop' = TRUE
    /\ drv_thread' = FALSE
    /\ drv_stop_called' = TRUE
    /\ drv_stopper' = [drv_stopper EXCEPT ![s] = IF drv_thread THEN "join" ELSE "close"]
    /\ UNCHANGED <<drv_kind, drv_seq, drv_latest, drv_closed, drv_poll,
                   drv_started, drv_ctl_closes, drv_pc, drv_loc, notDriver>>

DriverStopJoin_NoWait(s, timed_out) ==
    /\ drv_stopper[s] = "join"
    /\ drv_stopper' = [drv_stopper EXCEPT ![s] =
                          IF timed_out THEN "close" ELSE "close_joined"]
    /\ UNCHANGED <<drv_kind, drv_seq, drv_latest, drv_stop, drv_thread,
                   drv_closed, drv_poll, drv_started, drv_stop_called,
                   drv_ctl_closes, drv_pc, drv_loc, notDriver>>

\* thread.join(timeout=time_limit): the thread has ended, or the time limit
\* passed.  stop() goes on to close the controller either way; the model
\* remembers in "close_joined" that the join returned because the thread
\* had ended.
DriverStopJoin(s, timed_out) ==
    /\ drv_stopper[s] = "join"
    /\ timed_out \/ Ended(Len(drv_poll))
    /\ drv_stopper' = [drv_stopper EXCEPT ![s] =
                          IF timed_out THEN "close" ELSE "close_joined"]
    /\ UNCHANGED <<drv_kind, drv_seq, drv_latest, drv_stop, drv_thread,
                   drv_closed, drv_poll, drv_started, drv_stop_called,
                   drv_ctl_closes, drv_pc, drv_loc, notDriver>>

\* _close_controller(): with self._lock: if self._closed: return; the camera
\* driver calls self._ctl.close() whenever stop() is called.
ClosesController(kind, closed) == kind = "camera" \/ ~closed

\* _close_controller() of the infrared and the ultrasonic driver;
\* self._ctl.close() of the camera driver
DriverStopClose(s) ==
    /\ drv_stopper[s] \in {"close", "close_joined"}
    /\ drv_stopper' = [drv_stopper EXCEPT ![s] = "idle"]
    /\ drv_closed' = (drv_kind # "camera")
    /\ drv_ctl_closes' = IF ClosesController(drv_kind, drv_closed)
                         THEN Min(drv_ctl_closes + 1, 2) ELSE drv_ctl_closes
    /\ UNCHANGED <<drv_kind, drv_seq, drv_latest, drv_stop, drv_thread,
                   drv_poll, drv_started, drv_stop_called, drv_pc, drv_loc,
                   notDriver>>

\* _loop: while not self._stop.is_set()
PollTop(i) ==
    /\ drv_poll[i].pc = "top"
    /\ drv_poll' = [drv_poll EXCEPT ![i] =
                       IF drv_stop THEN PollAt("exited")
                       ELSE IF drv_kind = "camera" THEN [pc |-> "try", attempts |-> 0]
                       ELSE PollAt("read")]
    /\ UNCHANGED <<drv_kind, drv_seq, drv_latest, drv_stop, drv_thread,
                   drv_closed, drv_stopper, drv_started, drv_stop_called,
                   drv_ctl_closes, drv_pc, drv_loc, notDriver>>

PollTry_Unbounded(i) ==
    /\ drv_poll[i].pc = "try"
    /\ drv_poll' = [drv_poll EXCEPT ![i] =
                       IF drv_poll[i].attempts = Retries + 2 THEN PollAt("top")
                       ELSE IF drv_stop THEN PollAt("exited")
                       ELSE [pc |-> "read", attempts |-> drv_poll[i].attempts]]
    /\ UNCHANGED <<drv_kind, drv_seq, drv_latest, drv_stop, drv_thread,
                   drv_closed, drv_stopper, drv_started, drv_stop_called,
                   drv_ctl_closes, drv_pc, drv_loc, notDriver>>

\* camera _loop: for _ in range(retries + 1): if self._stop.is_set(): return;
\* after the last attempt without a frame, sleep(idle_sleep)
PollTry(i) ==
    /\ drv_poll[i].pc = "try"
    /\ drv_poll' = [drv_poll EXCEPT ![i] =
                       IF drv_poll[i].attempts = Retries + 1 THEN PollAt("top")
                       ELSE IF drv_stop THEN PollAt("exited")
                       ELSE [pc |-> "read", attempts |-> drv_poll[i].attempts]]
    /\ UNCHANGED <<drv_kind, drv_seq, drv_latest, drv_stop, drv_thread,
                   drv_closed, drv_stopper, drv_started, drv_stop_called,
                   drv_ctl_closes, drv_pc, drv_loc, notDriver>>

\* The capability is read, outside the lock.
PollRead(i) ==
    /\ drv_poll[i].pc = "read"
    /\ \/ /\ drv_kind = "infrared"
          /\ \E ch \in ChannelReads :
                drv_poll' = [drv_poll EXCEPT ![i] =
                                [pc |-> "publish", l |-> ch[1], m |-> ch[2], r |-> ch[3]]]
       \/ /\ drv_kind = "ultrasonic"
          /\ \E dist \in DistanceReads :
                drv_poll' = [drv_poll EXCEPT ![i] = [pc |-> "publish", dist |-> dist]]
       \/ /\ drv_kind = "camera"
          /\ \E frame \in {None, BGRFrame(drv_seq + 1)} :
                drv_poll' = [drv_poll EXCEPT ![i] =
                                IF frame = None
                                THEN [pc |-> "try", attempts |-> drv_poll[i].attempts + 1]
                                ELSE [pc |-> "publish", frame |-> frame]]
    /\ UNCHANGED <<drv_kind, drv_seq, drv_latest, drv_stop, drv_thread,
                   drv_closed, drv_stopper, drv_started, drv_stop_called,
                   drv_ctl_closes, drv_pc, drv_loc, notDriver>>

\* The read raises: the ultrasonic _loop catches it, sleeps and polls again;
\* the infrared and the camera _loop have no handler and the thread ends.
ReadRaised(kind) == IF kind = "ultrasonic" THEN PollAt("top") ELSE PollAt("crashed")

PollReadRaises(i) ==
    /\ drv_poll[i].pc = "read"
    /\ drv_poll' = [drv_poll EXCEPT ![i] = ReadRaised(drv_kind)]
    /\ UNCHANGED <<drv_kind, drv_seq, drv_latest, drv_stop, drv_thread,
                   drv_closed, drv_stopper, drv_started, drv_stop_called,
                   drv_ctl_closes, drv_pc, drv_loc, notDriver>>

\* self._cond.notify_all() of the driver
DriverNotified(pcs) ==
    [c \in DOMAIN pcs |-> IF pcs[c] = "wx_waiting" THEN "wx_woken" ELSE pcs[c]]

\* with self._cond: self._seq += 1; self._latest = ...; self._cond.notify_all()
\* and then the sleep to the next period; the camera driver, under its lock,
\* self._latest = frame.
PollPublish(i) ==
    /\ drv_poll[i].pc = "publish"
    /\ drv_seq < MaxSeq
    /\ drv_seq' = drv_seq + 1
    /\ drv_latest' = IF drv_kind = "infrared"
                     THEN InfraredSample(drv_poll[i].l, drv_poll[i].m, drv_poll[i].r,
                                         drv_seq + 1)
                     ELSE IF drv_kind = "ultrasonic" THEN drv_poll[i].dist
                     ELSE drv_poll[i].frame
    /\ drv_pc' = IF drv_kind = "camera" THEN drv_pc ELSE DriverNotified(drv_pc)
    /\ drv_poll' = [drv_poll EXCEPT ![i] = PollAt("top")]
    /\ UNCHANGED <<drv_kind, drv_stop, drv_thread, drv_closed, drv_stopper,
                   drv_started, drv_stop_called, drv_ctl_closes, drv_loc,
                   notDriver>>

\* ---- wait_next(last_seq, timeout)
\* timed: timeout is not None.
WaitNextCall(c, last_seq, timed) ==
    /\ drv_kind # "camera"
    /\ drv_pc[c] = "idle"
    /\ drv_pc' = [drv_pc EXCEPT ![c] = "wx_enter"]
    /\ drv_loc' = [drv_loc EXCEPT ![c] =
                      [call |-> "wait_next", arg |-> last_seq, timed |-> timed,
                       expired |-> FALSE]]
    /\ UNCHANGED <<drv_kind, drv_seq, drv_latest, drv_stop, drv_thread,
                   drv_closed, drv_poll, drv_stopper, drv_started,
                   drv_stop_called, drv_ctl_closes, notDriver>>

StillWaiting_Never(stop, seq, last_seq) == FALSE

\* while not self._stop.is_set() and self._seq == last_seq
StillWaiting(stop, seq, last_seq) == ~stop /\ seq = last_seq

\* What wait_next returns: the infrared driver its latest sample, the ultrasonic
\* driver (seq, latest), or None when there is no latest.
WaitNextResult ==
    IF drv_kind = "infrared" THEN drv_latest
    ELSE IF drv_latest = None THEN None
    ELSE [some |-> TRUE, seq |-> drv_seq, distance |-> drv_latest]

\* Under the lock: at entry last_seq is defaulted; then one evaluation of the
\* loop, which ends the call with a result or blocks in self._cond.wait().
WaitNextLoop(c) ==
    /\ drv_pc[c] \in {"wx_enter", "wx_woken"}
    /\ LET l == drv_loc[c]
           last_seq == IF drv_pc[c] = "wx_woken" THEN l.last
                       ELSE IF l.arg = {} THEN drv_seq
                       ELSE CHOOSE n \in l.arg : TRUE
           seq0 == IF drv_pc[c] = "wx_woken" THEN l.seq0 ELSE drv_seq
           call == [call |-> "wait_next", last |-> last_seq, seq0 |-> seq0,
                    timed |-> l.timed, expired |-> l.expired]
       IN  IF ~StillWaiting(drv_stop, drv_seq, last_seq)
           THEN /\ drv_pc' = [drv_pc EXCEPT ![c] = "wx_done"]
                /\ drv_loc' = [drv_loc EXCEPT ![c] =
                                  [call EXCEPT !.expired = FALSE] @@
                                  [why |-> IF drv_stop THEN "stop" ELSE "newer",
                                   ret |-> WaitNextResult]]
           ELSE IF l.timed /\ l.expired
           THEN /\ drv_pc' = [drv_pc EXCEPT ![c] = "wx_done"]
                /\ drv_loc' = [drv_loc EXCEPT ![c] =
                                  [call EXCEPT !.expired = FALSE] @@
                                  [why |-> "timeout", ret |-> WaitNextResult]]
           ELSE /\ drv_pc' = [drv_pc EXCEPT ![c] = "wx_waiting"]
                /\ drv_loc' = [drv_loc EXCEPT ![c] = call]
    /\ UNCHANGED <<drv_kind, drv_seq, drv_latest, drv_stop, drv_thread,
                   drv_closed, drv_poll, drv_stopper, drv_started,
                   drv_stop_called, drv_ctl_closes, notDriver>>

\* The deadline of a timed call passes; a thread blocked in wait(timeout) wakes.
WaitNextExpire(c) ==
    /\ drv_pc[c] \in {"wx_enter", "wx_waiting", "wx_woken"}
    /\ drv_loc[c].timed
    /\ ~drv_loc[c].expired
    /\ drv_loc' = [drv_loc EXCEPT ![c].expired = TRUE]
    /\ drv_pc' = [drv_pc EXCEPT ![c] = IF @ = "wx_waiting" THEN "wx_woken" ELSE @]
    /\ UNCHANGED <<drv_kind, drv_seq, drv_latest, drv_stop, drv_thread,
                   drv_closed, drv_poll, drv_stopper, drv_started,
                   drv_stop_called, drv_ctl_closes, notDriver>>

\* The caller takes the result.
WaitNextReturn(c) ==
    /\ drv_pc[c] = "wx_done"
    /\ drv_pc' = [drv_pc EXCEPT ![c] = "idle"]
    /\ drv_loc' = [drv_loc EXCEPT ![c] = NoLocals]
    /\ UNCHANGED <<drv_kind, drv_seq, drv_latest, drv_stop, drv_thread,
                   drv_closed, drv_poll, drv_stopper, drv_started,
                   drv_stop_called, drv_ctl_closes, notDriver>>


(***************************************************************************)
(* StreamingService: the HTTP server thread, the JPEG worker and close()   *)
(***************************************************************************)
\* The threads that call close(): the application (App.close()) and the
\* thread that runs serve_forever(), from its finally clause.
SvcThreads == {"app", "srv"}

\* StreamingService.__init__: nothing runs yet.  A new socketserver has no
\* shutdown request, and its "is shut down" event is not set until a
\* serve_forever() has ended.
StreamInit ==
    /\ svc_stop_event = FALSE
    /\ svc_shutdown_request = FALSE
    /\ svc_is_shut_down = FALSE
    /\ svc_srv = "none"
    /\ svc_worker = "unstarted"
    /\ svc_close = [t \in SvcThreads |-> "idle"]

\* serve_forever(): self._jpeg_worker.start(), then self._httpd.serve_forever(),
\* which clears the "is shut down" event and enters its loop.
SvcServeForever ==
    /\ svc_srv = "none"
    /\ svc_srv' = "serving"
    /\ svc_worker' = "running"
    /\ svc_is_shut_down' = FALSE
    /\ UNCHANGED <<svc_stop_event, svc_shutdown_request, svc_close, notStream>>

\* The HTTP server's loop ends, because a shutdown was requested or
\* (raised) because an exception left it; on its way out the server resets the
\* request and sets the "is shut down" event.  StreamingService.serve_forever
\* goes on to its finally clause.
SvcServeExit(raised) ==
    /\ svc_srv = "serving"
    /\ raised \/ svc_shutdown_request
    /\ svc_srv' = "finally"
    /\ svc_shutdown_request' = FALSE
    /\ svc_is_shut_down' = TRUE
    /\ UNCHANGED <<svc_stop_event, svc_worker, svc_close, notStream>>

\* _JpegWorker.run(): while not self._stop_event.is_set()
SvcWorkerExit ==
    /\ svc_worker = "running"
    /\ svc_stop_event
    /\ svc_worker' = "ended"
    /\ UNCHANGED <<svc_stop_event, svc_shutdown_request, svc_is_shut_down, svc_srv,
                   svc_close, notStream>>

\* Thread t may call close(): the application at any time, the server thread
\* in the finally clause of serve_forever().
MayClose(t) == IF t = "srv" THEN svc_srv = "finally" ELSE TRUE

\* close(): if self._stop_event.is_set(): return
SvcCloseCall(t) ==
    /\ svc_close[t] \in {"idle", "returned"}
    /\ MayClose(t)
    /\ svc_close' = [svc_close EXCEPT ![t] = IF svc_stop_event THEN "returned" ELSE "set"]
    /\ svc_srv' = IF t = "srv" /\ svc_stop_event THEN "returned" ELSE svc_srv
    /\ UNCHANGED <<svc_stop_event, svc_shutdown_request, svc_is_shut_down,
                   svc_worker, notStream>>

\* close(): self._stop_event.set()
SvcCloseSet(t) ==
    /\ svc_close[t] = "set"
    /\ svc_stop_event' = TRUE
    /\ svc_close' = [svc_close EXCEPT ![t] = "shutdown"]
    /\ UNCHANGED <<svc_shutdown_request, svc_is_shut_down, svc_srv, svc_worker, notStream>>

\* close(): self._httpd.shutdown() sets the shutdown request ...
SvcShutdownRequest(t) ==
    /\ svc_close[t] = "shutdown"
    /\ svc_shutdown_request' = TRUE
    /\ svc_close' = [svc_close EXCEPT ![t] = "shutdown_wait"]
    /\ UNCHANGED <<svc_stop_event, svc_is_shut_down, svc_srv, svc_worker, notStream>>

\* ... and waits, without a timeout, for the "is shut down" event.
ShutdownReturns(is_shut_down) == is_shut_down

SvcShutdownWait(t) ==
    /\ svc_close[t] = "shutdown_wait"
    /\ ShutdownReturns(svc_is_shut_down)
    /\ svc_close' = [svc_close EXCEPT ![t] = "server_close"]
    /\ UNCHANGED <<svc_stop_event, svc_shutdown_request, svc_is_shut_down, svc_srv,
                   svc_worker, notStream>>

\* close(): self._httpd.server_close()
SvcServerClose(t) ==
    /\ svc_close[t] = "server_close"
    /\ svc_close' = [svc_close EXCEPT ![t] = "join"]
    /\ UNCHANGED <<svc_stop_event, svc_shutdown_request, svc_is_shut_down, svc_srv,
                   svc_worker, notStream>>

\* close(): if self._jpeg_worker.is_alive(): self._jpeg_worker.join(timeout=2.0);
\* then close() returns, and with it serve_forever() when it was the caller.
SvcJoin(t, timed_out) ==
    /\ svc_close[t] = "join"
    /\ timed_out \/ svc_worker # "running"
    /\ svc_close' = [svc_close EXCEPT ![t] = "returned"]
    /\ svc_srv' = IF t = "srv" THEN "returned" ELSE svc_srv
    /\ UNCHANGED <<svc_stop_event, svc_shutdown_request, svc_is_shut_down,
                   svc_worker, notStream>>

(***************************************************************************)
(* stream_service.py: _Handler (one thread per connection) and _JpegStore  *)
(*                                                                         *)
(* The calls of the store run under its lock, so each is one step.  A path *)
(* is the pair <<stem, suffix>> of the two strings it is made of.          *)
(***************************************************************************)
MaxJpeg == 3

Connections == {"k1", "k2"}

\* The store is empty; no connection is open.
HttpInit ==
    /\ jp = StorePair(None, 0)
    /\ hd = [c \in Connections |-> [pc |-> "idle"]]

\* _JpegWorker.run: self._store.set(buffer.tobytes(), timestamp_ns=frame.timestamp)
\* with the next frame of the camera.
JpegPublish ==
    /\ svc_worker = "running"
    /\ jp.ts < MaxJpeg
    /\ jp' = StorePair(Frame(jp.ts + 1), jp.ts + 1)
    /\ UNCHANGED <<hd, notHttp>>

StartsWith_Exact(path, prefix) == path = <<prefix, "">>

\* self.path.startswith(prefix)
StartsWith(path, prefix) == path[1] = prefix

\* do_GET, up to the loop of _serve_mjpeg: the response to a GET of path.
Response(path) ==
    IF path \in {<<"/", "">>, <<"/index.html", "">>}
    THEN [pc |-> "done", path |-> path, status |-> 200, body |-> "html"]
    ELSE IF StartsWith(path, "/snapshot.jpg")
    THEN IF jp.value = None
         THEN [pc |-> "done", path |-> path, status |-> 503, body |-> "no frame yet"]
         ELSE [pc |-> "done", path |-> path, status |-> 200, body |-> jp.value]
    ELSE IF StartsWith(path, "/stream.mjpg")
    THEN [pc |-> "stream", path |-> path, status |-> 200, last_ts |-> 0,
          broken |-> FALSE]
    ELSE [pc |-> "done", path |-> path, status |-> 404, body |-> "not found"]

\* The serving server accepts a connection (in a slot no handler is using)
\* and its handler thread runs do_GET.
DoGet(c, path) ==
    /\ svc_srv = "serving"
    /\ hd[c].pc \in {"idle", "done"}
    /\ hd' = [hd EXCEPT ![c] = Response(path)]
    /\ UNCHANGED <<jp, notHttp>>

ServeMjpeg_BrokenEndsAll(c, broken) ==
    /\ hd[c].pc = "stream"
    /\ IF svc_stop_event
       THEN hd' = [hd EXCEPT ![c].pc = "done"]
       ELSE /\ jp.value # None /\ jp.ts # hd[c].last_ts
            /\ hd' = [d \in Connections |->
                         IF d = c
                         THEN [hd[c] EXCEPT !.last_ts = jp.ts, !.broken = broken,
                                            !.pc = IF broken THEN "done" ELSE "stream"]
                         ELSE IF broken /\ hd[d].pc = "stream"
                              THEN [hd[d] EXCEPT !.pc = "done"]
                              ELSE hd[d]]
    /\ UNCHANGED <<jp, notHttp>>

\* One pass of the loop of _serve_mjpeg: the loop ends on the stop event;
\* wait_newer returns a JPEG newer than last_ts, which is written to the
\* connection (last_ts is the timestamp of the JPEG last written); a write
\* that raises BrokenPipeError or ConnectionResetError (broken) ends the
\* handler.
ServeMjpeg(c, broken) ==
    /\ hd[c].pc = "stream"
    /\ IF svc_stop_event
       THEN hd' = [hd EXCEPT ![c].pc = "done"]
       ELSE /\ jp.value # None /\ jp.ts # hd[c].last_ts
            /\ hd' = [hd EXCEPT ![c] =
                         [@ EXCEPT !.last_ts = jp.ts, !.broken = broken,
                                   !.pc = IF broken THEN "done" ELSE "stream"]]
    /\ UNCHANGED <<jp, notHttp>>

(***************************************************************************)
(* vision/frame_pipeline.py: _PipelineWorker, which reads the camera       *)
(* driver's latest frame.  One pass of its loop is one step.               *)
(***************************************************************************)
\* _PipelineWorker.__init__ and the LatestStore it publishes to.
PipelineInit ==
    /\ pl_last_ts = 0
    /\ pl_out = StorePair(None, 0)
    /\ pl_tr = [ts \in 1..MaxSeq |-> [n |-> 0, raised |-> FALSE]]
    /\ je = [last_ts |-> 0, out |-> StorePair(None, 0)]

\* One pass of the loop of run(): frame = self._driver.latest_frame(); no
\* frame, or one with the timestamp of the last published one, is slept on;
\* otherwise the transform is applied, and its result published unless it
\* raised.
PipelineRun(raises) ==
    /\ drv_latest # None
    /\ drv_latest.timestamp # pl_last_ts
    /\ \E ts \in {drv_latest.timestamp} :
        /\ pl_tr' = [pl_tr EXCEPT ![ts] = [n |-> Min(@.n + 1, 2),
                                           raised |-> @.raised \/ raises]]
        /\ pl_last_ts' = IF raises THEN pl_last_ts ELSE ts
        /\ pl_out' = IF raises THEN pl_out ELSE StorePair(Frame(ts), ts)
    /\ UNCHANGED <<je, drvVars, notPipeline>>

\* vision/jpeg_encoder.py, one pass of the loop of _JpegEncoderWorker.run()
\* in which wait_newer returns an image: last_ts = ts, and the JPEG is
\* published with the image's timestamp unless imencode reports failure.
JpegEncoderRun(ok) ==
    /\ IsNewer(pl_out.value, pl_out.ts, je.last_ts)
    /\ je' = [last_ts |-> pl_out.ts,
              out |-> IF ok THEN StorePair(Frame(pl_out.ts), pl_out.ts) ELSE je.out]
    /\ UNCHANGED <<pl_last_ts, pl_out, pl_tr, drvVars, notPipeline>>

(***************************************************************************)
(* TerminalKeyboardTeleop._pop_key and MotorDriver.drive                   *)
(*                                                                         *)
(* A buffer is a sequence of characters.  A float scale is the integer      *)
(* number of hundredths it stands for (100 is 1.0), a power is an integer. *)
(***************************************************************************)
MaxBuf == 4

MaxDrive == 20

ESC == "ESC"

\* _pop_key is not called and drive is not called: nothing to remember.
FnInit == pk = NoCall /\ md = NoCall /\ ss = NoCall

\* A decoded key.
Key(chars) == [some |-> TRUE, key |-> chars]

PopKey_EagerEsc(buf) ==
    IF buf = <<>> THEN [token |-> None, rest |-> buf]
    ELSE IF buf[1] = ESC /\ Len(buf) >= 3 /\ buf[2] = "[" /\ buf[3] \in {"A", "B", "C", "D"}
    THEN [token |-> Key(SubSeq(buf, 1, 3)), rest |-> SubSeq(buf, 4, Len(buf))]
    ELSE [token |-> Key(<<buf[1]>>), rest |-> Tail(buf)]

\* _pop_key(buf): the token (None when there is none yet) and the rest.
PopKey(buf) ==
    IF buf = <<>> THEN [token |-> None, rest |-> buf]
    ELSE IF buf[1] = ESC
    THEN IF Len(buf) < 3 THEN [token |-> None, rest |-> buf]
         ELSE IF buf[2] = "[" /\ buf[3] \in {"A", "B", "C", "D"}
         THEN [token |-> Key(SubSeq(buf, 1, 3)), rest |-> SubSeq(buf, 4, Len(buf))]
         ELSE [token |-> Key(<<ESC>>), rest |-> Tail(buf)]
    ELSE [token |-> Key(<<buf[1]>>), rest |-> Tail(buf)]

\* _pop_key is called, once in a behaviour, on a buffer of up to MaxBuf
\* characters.
PopKeyCall ==
    /\ ~pk.called
    /\ \E n \in 0..MaxBuf : \E buf \in [1..n -> {ESC, "[", "A", "D", "x"}] :
           pk' = [called |-> TRUE, buf |-> buf, ret |-> PopKey(buf)]
    /\ UNCHANGED <<md, ss, notFn>>

\* int(scale * v) for the scale of num hundredths: the product, truncated
\* towards zero.
IntOfScaled(scale, v) ==
    IF scale * v >= 0 THEN (scale * v) \div 100 ELSE 0 - ((0 - scale * v) \div 100)

Clamp_Upper(power, max_pow) == Min(power, max_pow)

\* _clamp(power): max(-max_pow, min(power, max_pow))
Clamp(power, max_pow) ==
    IF Min(power, max_pow) < 0 - max_pow THEN 0 - max_pow ELSE Min(power, max_pow)

\* drive(throttle, steer_differential): the arguments of set_wheels,
\* <<front left, back left, front right, back right>>.
Drive(cfg, throttle, steer_differential) ==
    LET r_scale == IF steer_differential # 0 THEN cfg.right_scale ELSE 100
        l_scale == IF steer_differential # 0 THEN cfg.left_scale ELSE 100
        rpow == Clamp(IntOfScaled(r_scale, throttle + steer_differential), cfg.max_power)
        lpow == Clamp(IntOfScaled(l_scale, throttle - steer_differential), cfg.max_power)
    IN  <<lpow, lpow, rpow, rpow>>

\* drive is called, once in a behaviour, on a driver with some MotorConfig;
\* one unit of power stands for 100.
MotorDrive ==
    /\ ~md.called
    /\ \E cfg \in [max_power : {0, 3, 20}, left_scale : {50, 100},
                   right_scale : {100, 150}],
          throttle \in (0 - MaxDrive)..MaxDrive,
          steer_differential \in {0 - 5, 0 - 1, 0, 1, 5} :
           md' = [called |-> TRUE, cfg |-> cfg, throttle |-> throttle,
                  steer_differential |-> steer_differential,
                  wheels |-> Drive(cfg, throttle, steer_differential)]
    /\ UNCHANGED <<pk, ss, notFn>>

\* The pans and tilts a step starts from lie within MaxAngle of the centre.
MaxAngle == 1

\* UsbKeyboardTeleop._step_servo_from_pressed: the pan and tilt it leaves in
\* _pan and _tilt, and whether it set `changed` and so called _set_servo.
StepServoFromPressed(pressed, pan, tilt, cfg) ==
    LET psign == IF cfg.invert_pan THEN 0 - 1 ELSE 1
        tsign == IF cfg.invert_tilt THEN 0 - 1 ELSE 1
    IN  IF "servo_center" \in pressed
        THEN [pan |-> 0, tilt |-> 0, changed |-> pan # 0 \/ tilt # 0]
        ELSE [pan |-> pan + cfg.servo_step * psign * (Held01(pressed, "servo_pan_right")
                                                       - Held01(pressed, "servo_pan_left")),
              tilt |-> tilt + cfg.servo_step * tsign * (Held01(pressed, "servo_tilt_up")
                                                         - Held01(pressed, "servo_tilt_down")),
              changed |-> pressed # {}]

\* _step_servo_from_pressed is called, once in a behaviour, on a set of held
\* servo keys, a pan and a tilt within MaxAngle of the centre, and a config.
StepServo ==
    /\ ~ss.called
    /\ \E pressed \in SUBSET {"servo_pan_left", "servo_pan_right", "servo_tilt_up",
                              "servo_tilt_down", "servo_center"} :
       \E pan \in (0 - MaxAngle)..MaxAngle, tilt \in (0 - MaxAngle)..MaxAngle :
       \E cfg \in [servo_step : {1, 2}, invert_pan : BOOLEAN, invert_tilt : BOOLEAN] :
           ss' = [called |-> TRUE, pressed |-> pressed, pan |-> pan, tilt |-> tilt,
                  cfg |-> cfg, ret |-> StepServoFromPressed(pressed, pan, tilt, cfg)]
    /\ UNCHANGED <<pk, md, notFn>>

(***************************************************************************)
(* __main__.py: the teleop feeds the motor mux of the control loop.        *)
(* Source 1 of the mux is MotorSource(teleop); source 2, where the mux has *)
(* a second entry, is any other source.                                    *)
(***************************************************************************)
MotorSourceLatest_Stored == tel_latest_motor

\* MotorSource.latest(): return self.teleop.latest_motor()
MotorSourceLatest ==
    IF tel_latest_motor = None THEN None
    ELSE IF DeadmanTripped(now - tel_last_motor_input_t, tel_cfg.deadman_s)
         THEN MotorCommandStop
         ELSE tel_latest_motor

\* What the sources yield when pick() asks them.
TeleopSources == [msrc EXCEPT ![1] = MotorSourceLatest]

\* The entry lists of such a mux: the teleop alone (as make_kb_muxs builds
\* it), or the teleop at priority 0 before another source at priority 1.
TeleopEntryLists ==
    { <<SourceEntry(1, a, 0)>> : a \in {0, 1, 2} } \cup
    { <<SourceEntry(2, b, 1), SourceEntry(1, a, 0)>> : a \in {0, 1}, b \in {0, 1} }

\* PriorityMux.pick() of that mux.
TeleopMuxPick ==
    /\ picked = NoPick
    /\ picked' = [called |-> TRUE,
                  idx |-> PickFrom(entries, TeleopSources, now, 1),
                  cmd |-> Pick(entries, TeleopSources, now)]
    /\ UNCHANGED <<now, entries, msrc, loopVars, notCtl>>

\* ControlLoop.tick() of a loop with that mux and a motor sink whose drive()
\* returns (loop.py:76-87).
TeleopTick ==
    /\ picked = NoPick
    /\ \E m \in {TickMotor(motor /\ motor_mux, Pick(entries, TeleopSources, now), "none")} :
        /\ last_motor' = IF m.call THEN m.pair ELSE last_motor
        /\ run_last_drive' = IF m.call THEN m.pair ELSE run_last_drive
        /\ tk' = [ticked |-> TRUE, n |-> IF tk = NoTick THEN 0 ELSE 1 - tk.n,
                  motor_absent |-> m.absent, m |-> m.pair, drive |-> m.call]
    /\ UNCHANGED <<now, muxVars, motor, servo, motor_mux, servo_mux,
                   motor_failsafe_stop, ssrc, last_servo, absent_run, run_pre,
                   run_drives, run_ok, loop_stop, run_pc, run_final, notLoop>>

(***************************************************************************)
(* Specifications                                                          *)
(***************************************************************************)
InitMux == now = 0 /\ MuxInit /\ LoopIdle /\ StoreInit /\ TeleopIdle /\ DriverIdle
    /\ StreamInit /\ HttpInit /\ PipelineInit /\ FnInit

NextMux ==
    \/ \E s \in Sources, th \in Throttles : SourceEmit(s, th, 0)
    \/ \E s \in Sources, th \in Throttles : SourceEmitUntimed(s, th)
    \/ Advance(MaxTime)
    \/ MuxPick
    \/ MuxReturn

SpecMux == InitMux /\ [][NextMux]_vars

Init ==
    /\ now = 0
    /\ \E es \in LoopEntryLists : entries = PriorityMuxInit(es)
    /\ msrc = [s \in Sources |-> None]
    /\ picked = NoPick
    /\ LoopInit
    /\ StoreInit
    /\ TeleopIdle
    /\ DriverIdle
    /\ StreamInit /\ HttpInit /\ PipelineInit /\ FnInit

Next ==
    \/ \E s \in LoopSources, th \in Throttles : SourceEmit(s, th, 0)
    \/ \E s \in ServoSources, p \in Pans : ServoEmit(s, p, 0)
    \/ Advance(LoopMaxTime)
    \/ \E raises \in SinkCalls \cup {"none"} : Tick(raises)

Spec == Init /\ [][Next]_vars

InitStore ==
    now = 0 /\ MuxIdle /\ LoopIdle /\ StoreInit /\ TeleopIdle /\ DriverIdle
    /\ StreamInit /\ HttpInit /\ PipelineInit /\ FnInit

NextStore ==
    \/ \E w \in Writers, t \in Stamps : SetCall(w, t)
    \/ \E w \in Writers : SetAcquire(w) \/ SetValue(w) \/ SetTs(w) \/ SetNotify(w)
    \/ \E g \in Getters : GetCall(g) \/ GetAcquire(g) \/ GetValue(g) \/ GetTs(g)
    \/ \E r \in Waiters, last \in {0} \cup Stamps : WaitCall(r, last)
    \/ \E r \in Waiters : WaitAcquire(r) \/ WaitTop(r) \/ WaitCheck(r) \/ Expire(r)
    \/ \E t \in Getters \cup Waiters : Return(t)
    \/ StopEventSet

SpecStore == InitStore /\ [][NextStore]_vars

InitTeleop ==
    now = 0 /\ MuxIdle /\ LoopIdle /\ StoreInit /\ TeleopStarted /\ DriverIdle
    /\ usb_hist = NoHistory /\ tty = Tty("cooked", {})
    /\ StreamInit /\ HttpInit /\ PipelineInit /\ FnInit

NextTeleop ==
    \/ \E ks \in KeyBatches : TerminalRead(ks)
    \/ \E ev \in KeyEvents : UsbLoop(ev, RefreshDue)
    \/ LatestMotor
    \/ Advance(TelMaxTime)

SpecTeleop == InitTeleop /\ [][NextTeleop]_vars

\* The USB teleop with its input thread running: the thread takes a pass of
\* its _loop (select() waits _SELECT_TIMEOUT_S at most) in every refresh
\* period, so time moves on only after the pass that was due.
AdvanceRunning ==
    /\ tel_thread = "running"
    /\ tel_last_motor_refresh_t = now
    /\ Advance(TelMaxTime)

InitTeleopRunning == InitTeleop /\ tel_cfg.kind = "usb"

NextTeleopRunning ==
    \/ \E ev \in KeyEvents : UsbLoop(ev, RefreshDue)
    \/ LatestMotor
    \/ AdvanceRunning

SpecTeleopRunning == InitTeleopRunning /\ [][NextTeleopRunning]_vars

\* The life of the input thread: start(), keys, an exception, stop().
InitTeleopThread ==
    now = 0 /\ MuxIdle /\ LoopIdle /\ StoreInit /\ TeleopInit /\ DriverIdle
    /\ usb_hist = NoHistory /\ tty = Tty("cooked", {})
    /\ StreamInit /\ HttpInit /\ PipelineInit /\ FnInit

NextTeleopThread ==
    \/ TelStart
    \/ TelStopSignal
    \/ \E timed_out \in BOOLEAN : TelStopJoin(timed_out)
    \/ TelLoopExit
    \/ TelLoopRaises
    \/ TelCrashHandler
    \/ \E ks \in {<<"quit">>, <<"motor_forward">>} : TerminalRead(ks)
    \/ \E ev \in [token : {"quit", "motor_forward"}, keystate : {1}] :
           UsbLoop(ev, RefreshDue)

SpecTeleopThread == InitTeleopThread /\ [][NextTeleopThread]_vars

InitDriver ==
    now = 0 /\ MuxIdle /\ LoopIdle /\ StoreInit /\ TeleopIdle /\ DriverInit
    /\ StreamInit /\ HttpInit /\ PipelineInit /\ FnInit

NextDriver ==
    \/ DriverStart
    \/ \E s \in Stoppers : DriverStopSignal(s)
    \/ \E s \in Stoppers, timed_out \in BOOLEAN : DriverStopJoin(s, timed_out)
    \/ \E s \in Stoppers : DriverStopClose(s)
    \/ \E i \in PollThreads : PollTop(i)
    \/ \E i \in PollThreads : PollTry(i)
    \/ \E i \in PollThreads : PollRead(i)
    \/ \E i \in PollThreads : PollReadRaises(i)
    \/ \E i \in PollThreads : PollPublish(i)
    \/ \E c \in Callers, last_seq \in LastSeqs, timed \in BOOLEAN :
           WaitNextCall(c, last_seq, timed)
    \/ \E c \in Callers : WaitNextLoop(c) \/ WaitNextExpire(c) \/ WaitNextReturn(c)

SpecDriver == InitDriver /\ [][NextDriver]_vars

\* The loop run by run_forever().
NextRun ==
    \/ \E s \in LoopSources, th \in Throttles : SourceEmit(s, th, 0)
    \/ \E s \in ServoSources, p \in Pans : ServoEmit(s, p, 0)
    \/ Advance(LoopMaxTime)
    \/ LoopStop
    \/ RunForever
    \/ RunTest
    \/ \E raises \in SinkCalls \cup {"none"} : RunTick(raises)
    \/ RunExit
    \/ \E raises \in BOOLEAN : RunFinal(raises)

SpecRun == Init /\ [][NextRun]_vars

InitStream ==
    now = 0 /\ MuxIdle /\ LoopIdle /\ StoreInit /\ TeleopIdle /\ DriverIdle
    /\ StreamInit /\ HttpInit /\ PipelineInit /\ FnInit

NextStream ==
    \/ SvcServeForever
    \/ \E raised \in BOOLEAN : SvcServeExit(raised)
    \/ SvcWorkerExit
    \/ \E t \in SvcThreads : SvcCloseCall(t)
    \/ \E t \in SvcThreads : SvcCloseSet(t)
    \/ \E t \in SvcThreads : SvcShutdownRequest(t)
    \/ \E t \in SvcThreads : SvcShutdownWait(t)
    \/ \E t \in SvcThreads : SvcServerClose(t)
    \/ \E t \in SvcThreads, timed_out \in BOOLEAN : SvcJoin(t, timed_out)

SpecStream == InitStream /\ [][NextStream]_vars

\* A step of the server thread, a step of the worker, a step inside close().
\* Whether serve_forever() is ever called is up to the application.
SvcCloseStep(t) ==
    \/ SvcCloseSet(t) \/ SvcShutdownRequest(t) \/ SvcShutdownWait(t)
    \/ SvcServerClose(t)
    \/ \E timed_out \in BOOLEAN : SvcJoin(t, timed_out)

FairStream ==
    /\ WF_vars(svc_shutdown_request /\ SvcServeExit(FALSE))
    /\ WF_vars(SvcCloseCall("srv"))
    /\ WF_vars(SvcWorkerExit)
    /\ \A t \in SvcThreads : WF_vars(SvcCloseStep(t))

SpecStreamFair == InitStream /\ [][NextStream]_vars /\ FairStream

\* A step of polling thread i.  Every thread that can run does run; a read
\* returns or raises.
PollStep(i) ==
    /\ i \in PollThreads
    /\ PollTop(i) \/ PollTry(i) \/ PollRead(i) \/ PollReadRaises(i) \/ PollPublish(i)

\* A step inside stop(): the bounded join ends, the controller is closed.
StopStep(s) ==
    \/ \E timed_out \in BOOLEAN : DriverStopJoin(s, timed_out)
    \/ DriverStopClose(s)

\* A step inside wait_next(): the timeout passes, the lock is taken.
WaitNextStep(c) == WaitNextLoop(c) \/ WaitNextExpire(c)

FairDriver ==
    /\ \A i \in 1..MaxThreads : WF_vars(PollStep(i))
    /\ \A s \in Stoppers : WF_vars(StopStep(s))
    /\ \A c \in Callers : WF_vars(WaitNextStep(c))

SpecDriverFair == InitDriver /\ [][NextDriver]_vars /\ FairDriver

\* The application: keys arrive at the started teleop, another source emits,
\* time passes, the mux is asked and the control loop ticks.
InitCar ==
    /\ now = 0
    /\ \E es \in TeleopEntryLists : entries = PriorityMuxInit(es)
    /\ msrc = [s \in Sources |-> None]
    /\ picked = NoPick
    /\ LoopInit /\ motor /\ ~servo
    /\ StoreInit /\ TeleopStarted /\ DriverIdle
    /\ usb_hist = NoHistory /\ tty = Tty("cooked", {})
    /\ StreamInit /\ HttpInit /\ PipelineInit /\ FnInit

NextCar ==
    \/ \E ks \in {<<"motor_forward">>, <<"motor_stop">>} : TerminalRead(ks)
    \/ \E ev \in [token : {"motor_forward"}, keystate : {0, 1}] \cup {NoEvent} :
           UsbLoop(ev, RefreshDue)
    \/ \E th \in Throttles : SourceEmit(2, th, 0)
    \/ Advance(TelMaxTime)
    \/ TeleopMuxPick
    \/ MuxReturn
    \/ TeleopTick

SpecCar == InitCar /\ [][NextCar]_vars

\* The USB teleop with the events of two of its keys followed: key events
\* arrive, time passes, and the application stops and restarts the teleop.
InitUsbKeys ==
    now = 0 /\ MuxIdle /\ LoopIdle /\ StoreInit /\ TeleopStarted /\ DriverIdle
    /\ tel_cfg.kind = "usb"
    /\ usb_hist = History({"motor_forward", "motor_right"}) /\ tty = Tty("cooked", {})
    /\ StreamInit /\ HttpInit /\ PipelineInit /\ FnInit

NextUsbKeys ==
    \/ \E ev \in [token : {"motor_forward", "motor_right"}, keystate : KeyStates]
                  \cup {NoEvent} :
           UsbLoop(ev, RefreshDue)
    \/ Advance(TelMaxTime)
    \/ TelStopSignal
    \/ \E timed_out \in BOOLEAN : TelStopJoin(timed_out)
    \/ TelLoopExit
    \/ TelStart

SpecUsbKeys == InitUsbKeys /\ [][NextUsbKeys]_vars

\* The terminal teleop on a terminal in any of a few modes: the application
\* starts and stops it, keys arrive, the thread sets the terminal up, leaves
\* its loop or raises.
InitTerminal ==
    now = 0 /\ MuxIdle /\ LoopIdle /\ StoreInit /\ TeleopInit /\ DriverIdle
    /\ tel_cfg.kind = "terminal"
    /\ usb_hist = NoHistory
    /\ \E a \in {"cooked", "cbreak"}, f \in SUBSET {"O_NONBLOCK", "O_APPEND"} :
           tty = Tty(a, f)
    /\ StreamInit /\ HttpInit /\ PipelineInit /\ FnInit

NextTerminal ==
    \/ TelStart
    \/ TtySetup
    \/ \E ks \in {<<"quit">>, <<"motor_forward">>} : TerminalRead(ks)
    \/ TelStopSignal
    \/ \E timed_out \in BOOLEAN : TelStopJoin(timed_out)
    \/ TelLoopExit
    \/ TelLoopRaises
    \/ TelCrashHandler

SpecTerminal == InitTerminal /\ [][NextTerminal]_vars

\* The service with its HTTP handlers: JPEGs are published and connections
\* come and go while the service is started and closed.
NextHttp ==
    \/ NextStream
    \/ JpegPublish
    \/ \E c \in Connections,
          path \in {"/", "/index.html", "/snapshot.jpg", "/stream.mjpg", "/other"}
                   \X {"", "?t=1"} : DoGet(c, path)
    \/ \E c \in Connections, broken \in BOOLEAN : ServeMjpeg(c, broken)

SpecHttp == InitStream /\ [][NextHttp]_vars

\* The camera driver captures frames and the pipeline worker processes them.
NextPipeline ==
    \/ DriverStart
    \/ \E i \in PollThreads : PollTop(i)
    \/ \E i \in PollThreads : PollTry(i)
    \/ \E i \in PollThreads : PollRead(i)
    \/ \E i \in PollThreads : PollPublish(i)
    \/ \E raises \in BOOLEAN : PipelineRun(raises)

InitPipeline == InitDriver /\ drv_kind = "camera"

\* The camera driver, started and stopped by the application, the pipeline
\* worker with a transform that returns, and the JPEG encoder worker.
NextFrames ==
    \/ DriverStart
    \/ \E s \in {"s1"} : DriverStopSignal(s)
    \/ \E s \in {"s1"}, timed_out \in BOOLEAN : DriverStopJoin(s, timed_out)
    \/ \E s \in {"s1"} : DriverStopClose(s)
    \/ \E i \in PollThreads : PollTop(i)
    \/ \E i \in PollThreads : PollTry(i)
    \/ \E i \in PollThreads : PollRead(i)
    \/ \E i \in PollThreads : PollPublish(i)
    \/ PipelineRun(FALSE)
    \/ \E ok \in BOOLEAN : JpegEncoderRun(ok)

SpecFrames == InitPipeline /\ [][NextFrames]_vars

SpecPipeline == InitPipeline /\ [][NextPipeline]_vars

\* _pop_key on every buffer; drive on every input.  Nothing else runs.
NextPopKey == PopKeyCall

SpecPopKey == InitStream /\ [][NextPopKey]_vars

NextMotorDrive == MotorDrive

NextStepServo == StepServo

SpecStepServo == InitStream /\ [][NextStepServo]_vars

SpecMotorDrive == InitStream /\ [][NextMotorDrive]_vars

(***************************************************************************)
(* Properties of PriorityMux.pick(), stated on the result `picked` of a     *)
(* pick() while the caller holds it (sources and clock are as pick() saw    *)
(* them).                                                                   *)
(***************************************************************************)
EntryIdx == 1..Len(entries)

Yielded(i) == msrc[entries[i].source]

\* Entry i's source yields a command that is older than the entry's max age.
YieldsStale(i) ==
    /\ Yielded(i) # None
    /\ "ts" \in DOMAIN Yielded(i)
    /\ now - Yielded(i).ts > entries[i].max_age_s

\* Entry i's source yields a present command that is not too old.
YieldsFresh(i) == Yielded(i) # None /\ ~YieldsStale(i)

\* C3 (staleness): a pick() at time now never returns, on behalf of entry e, a
\* command c of e's source with now - c.ts > e.max_age_s.
C3_StaleNeverPicked ==
    picked.called => \A i \in EntryIdx : YieldsStale(i) => picked.idx # i

C3_Witness ==
    /\ picked.called
    /\ \E i \in EntryIdx : YieldsStale(i) /\ picked.idx \notin {0, i}

\* C4 (priority order): whatever order the entries were passed in, pick() returns
\* the command of an entry of the smallest priority number among the entries
\* whose source yields a present, fresh command.
C4_PriorityOrder ==
    picked.called =>
        \A j \in EntryIdx : YieldsFresh(j) =>
            /\ picked.idx \in EntryIdx
            /\ YieldsFresh(picked.idx)
            /\ entries[picked.idx].priority <= entries[j].priority
            /\ picked.cmd = Yielded(picked.idx)

\* Two fresh sources at priorities 0 and 1, the priority-0 entry passed second.
C4_Witness ==
    /\ picked.called
    /\ \A i \in EntryIdx : YieldsFresh(i)
    /\ \E i, j \in EntryIdx :
        /\ entries[i].priority = 0 /\ entries[i].source = 2
        /\ entries[j].priority = 1 /\ entries[j].source = 1
        /\ picked.idx = i

\* C5 (failover): pick() returns absent exactly when every entry's source yields
\* absent or a command older than the entry's max age; otherwise it returns the
\* command of a fresh entry, skipping a stale entry of higher priority.
C5_Failover ==
    picked.called =>
        /\ (picked.cmd = None) <=>
               (\A i \in EntryIdx : Yielded(i) = None \/ YieldsStale(i))
        /\ (picked.idx = 0) <=> (picked.cmd = None)
        /\ picked.idx # 0 =>
               /\ YieldsFresh(picked.idx)
               /\ picked.cmd = Yielded(picked.idx)

\* Priority 0 with max age 0 holds a command aged 2, priority 1 with max age 1
\* holds a command aged 0: the priority-1 command is returned.
C5_Witness ==
    /\ picked.called
    /\ Len(entries) = 2
    /\ entries[1].priority = 0 /\ entries[1].max_age_s = 0
    /\ entries[2].priority = 1 /\ entries[2].max_age_s = 1
    /\ Yielded(1) # None /\ YieldsStale(1) /\ now - Yielded(1).ts = 2
    /\ YieldsFresh(2) /\ "ts" \in DOMAIN Yielded(2) /\ Yielded(2).ts = now
    /\ picked.idx = 2 /\ picked.cmd = Yielded(2)

(***************************************************************************)
(* Properties of ControlLoop.tick().                                       *)
(***************************************************************************)
Stopped == Pair(0, 0)

\* The run of consecutive ticks whose motor pick was absent, with a motor sink,
\* a motor mux and failsafe-stop enabled.
InAbsentRun == motor /\ motor_mux /\ motor_failsafe_stop /\ absent_run >= 1

\* C1 as stated (deadman fail-safe), for a sink whose calls all return: across
\* N >= 1 consecutive ticks whose motor pick is absent, the sink receives
\* drive(0, 0) exactly once.
C1_StopExactlyOnce == (InAbsentRun /\ run_ok = run_drives) => run_drives = 1

\* C1 as amended: across such ticks drive(0, 0) is not invoked at all when the
\* pair last forwarded before them was already (0, 0); otherwise every one of
\* them invokes it until one invocation returns, and none after that one. So it
\* returns at most once, and is invoked exactly once when the sink does not raise.
C1_StopAtMostOnce ==
    InAbsentRun =>
        /\ run_ok <= 1
        /\ run_pre = Stopped => run_drives = 0
        /\ (run_pre # Stopped /\ run_ok = 0) => run_drives = Min(absent_run, 2)
        /\ (run_pre # Stopped /\ run_ok = run_drives) => run_drives = 1
        /\ run_ok = 1 => last_motor = Stopped
        /\ (run_ok = 1 /\ tk.drive) => ~tk.drive_raised

\* Two or more absent ticks, one drive(0, 0), the later ticks suppressed.
C1_Witness ==
    /\ InAbsentRun /\ absent_run >= 2
    /\ run_pre # Stopped
    /\ run_drives = 1 /\ run_ok = 1
    /\ ~tk.drive

\* A step that is a tick(), and one that is a tick() following another.
TickStep == tk' # NoTick /\ (tk = NoTick \/ tk'.n # tk.n)

NextTickStep == tk # NoTick /\ tk'.n # tk.n

\* Every tick writes only what differs from the suppression memory.
WritesOnlyChanges ==
    TickStep =>
        /\ tk'.drive => tk'.m # last_motor
        /\ tk'.set_pan => tk'.s # last_servo
        /\ tk'.set_tilt => tk'.set_pan

\* C2 as stated (write suppression): a tick writes to a sink only a pair that
\* differs from the one last forwarded, and two consecutive ticks with an
\* unchanged resolved command invoke drive, set_pan and set_tilt at most once
\* each in total.
C2_AtMostOnceInTwoTicks ==
    [][ /\ WritesOnlyChanges
        /\ (NextTickStep /\ tk.m # None /\ tk'.m = tk.m)
               => ~(tk.drive /\ tk'.drive)
        /\ (NextTickStep /\ tk.s # None /\ tk'.s = tk.s)
               => /\ ~(tk.set_pan /\ tk'.set_pan)
                  /\ ~(tk.set_tilt /\ tk'.set_tilt)
      ]_vars

\* C2 as amended: the same, for two consecutive ticks the first of which had no
\* sink call raise (a write that raised is not remembered and is issued again);
\* the second tick then makes none of the three calls for the unchanged command.
C2_SuppressedAfterSuccess ==
    [][ /\ WritesOnlyChanges
        /\ (NextTickStep /\ tk.m # None /\ tk'.m = tk.m /\ ~tk.drive_raised)
               => ~tk'.drive
        /\ (NextTickStep /\ tk.s # None /\ tk'.s = tk.s /\ ~tk.servo_raised)
               => ~tk'.set_pan /\ ~tk'.set_tilt
      ]_vars

\* A tick that resolved the same motor pair as the tick before it, from a
\* command with another timestamp, and the same servo pair, and wrote nothing.
C2_Witness ==
    /\ tk.ticked
    /\ tk.same_m /\ tk.ts_differs /\ ~tk.drive
    /\ tk.same_s /\ ~tk.set_pan /\ ~tk.set_tilt
    /\ last_motor = tk.m /\ last_servo = tk.s

(***************************************************************************)
(* LatestStore                                                             *)
(***************************************************************************)
Returned(r) == st_pc[r] = "wn_done"

\* C7: a wait_newer() call that has returned hands back either a present value
\* with a timestamp different from its last_timestamp_ns, or None with exactly
\* last_timestamp_ns; and it hands back the latter whenever it returned because
\* the stop event was set or the timeout elapsed.
C7_WaitNewerResult ==
    \A r \in Waiters : Returned(r) =>
        LET l == st_loc[r]
        IN  /\ \/ l.ret.value # None /\ l.ret.ts # l.last
               \/ l.ret = StorePair(None, l.last)
            /\ l.why \in {"stop", "timeout"} => l.ret = StorePair(None, l.last)

\* A call timed out while the store held a value stamped last_timestamp_ns.
C7_Witness ==
    \E r \in Waiters :
        /\ Returned(r)
        /\ st_loc[r].why = "timeout"
        /\ st_value # None
        /\ st_ts = st_loc[r].last

Untorn(p) == p = StorePair(None, 0) \/ (p.value # None /\ p.value.stamp = p.ts)

\* C8: the value and the timestamp are written together: whenever the lock is
\* free the slot holds the pair of the last set() that left the lock; get()
\* returns exactly that pair as it stood when get() held the lock; and every
\* pair with a present value returned by get() or wait_newer() is the pair of
\* one single set() call (or the initial (None, 0) for get()).
C8_RaceFree ==
    /\ st_lock = Free => StorePair(st_value, st_ts) = st_committed
    /\ \A g \in Getters : st_pc[g] = "get_done" =>
           /\ Untorn(st_loc[g].ret)
           /\ st_loc[g].ret = st_loc[g].latest
    /\ \A r \in Waiters : (Returned(r) /\ st_loc[r].ret.value # None) =>
           Untorn(st_loc[r].ret)

\* get() has returned a written pair and a writer is half way through writing
\* another one.
C8_Witness ==
    \E g \in Getters, w \in Writers :
        /\ st_pc[g] = "get_done"
        /\ st_loc[g].ret.value # None
        /\ st_pc[w] = "set_ts"
        /\ st_loc[w].ts # st_loc[g].ret.ts

Newer(r) == st_value # None /\ st_ts # st_loc[r].last

Blocked(r) == st_pc[r] = "wn_waiting"

NoMissedSet == \A r \in Waiters : (st_lock = Free /\ Blocked(r)) => ~Newer(r)

WokenByEverySet ==
    \A w \in Writers : (st_pc[w] = "set_notify" /\ st_pc'[w] = "idle") =>
        \A r \in Waiters : Blocked(r) => st_pc'[r] = "wn_woken"

RechecksAfterWakeup ==
    \A r \in Waiters : (st_pc[r] = "wn_check" /\ st_pc'[r] # "wn_check") =>
        IF st_loc[r].v # None /\ st_ts # st_loc[r].last
        THEN Returned(r)' /\ st_loc'[r].ret = StorePair(st_loc[r].v, st_ts)
        ELSE ~st_loc[r].expired => Blocked(r)'

\* C9: no wakeup is lost: no thread stays blocked in wait_newer(X) while the
\* lock is free and the slot holds a present value stamped other than X; the
\* notify_all of every set() wakes every blocked thread; and a woken thread
\* that checks again returns the value if its stamp differs from X and
\* otherwise, its deadline not passed, blocks again.
C9_NoLostWakeup ==
    /\ []NoMissedSet
    /\ [][WokenByEverySet /\ RechecksAfterWakeup]_vars

\* Both waiters have been woken by a set() whose stamp differs from theirs.
C9_Witness ==
    /\ ~stop_event
    /\ st_lock = Free
    /\ \A r \in Waiters :
           st_pc[r] = "wn_woken" /\ ~st_loc[r].expired /\ Newer(r)

(***************************************************************************)
(* Teleop                                                                  *)
(***************************************************************************)
\* C6: in the terminal, the USB and the legacy teleop alike, once a motor input
\* has been received, a latest_motor() call made when the most recent motor
\* input is at least deadman_s old returns no command with a non-zero throttle
\* or steer_differential: it returns a stop command (0, 0) made at the call,
\* whatever command is stored.
C6_InputDeadman ==
    (/\ tel_ret.called
     /\ tel_ret.stored # None
     /\ tel_ret.age >= tel_cfg.deadman_s)
    => tel_ret.ret = MotorCommand(0, 0, tel_ret.at)

\* The USB teleop, a motor key still held, is asked exactly deadman_s after the
\* last motor input while it stores a command that drives.
C6_Witness ==
    /\ tel_ret.called
    /\ tel_cfg.kind = "usb"
    /\ tel_ret.stored # None
    /\ tel_ret.stored.throttle # 0
    /\ tel_ret.age = tel_cfg.deadman_s
    /\ tel_pressed \cap MotorKeys # {}
    /\ tel_ret.ret.throttle = 0

MotionKeys == MotorKeys \ {"motor_stop"}

\* C19: with the refresh period shorter than deadman_s and the input thread
\* running, a latest_motor() call made while a motion key is in the pressed
\* set does not return the stop that the deadman makes.
C19_HeldKeyBeatsDeadman ==
    [][(/\ tel_ret' # tel_ret
        /\ RefreshPeriod < tel_cfg.deadman_s
        /\ tel_pressed \cap MotionKeys # {})
       => ~(/\ tel_ret'.stored # None
            /\ DeadmanTripped(tel_ret'.age, tel_cfg.deadman_s))]_vars

\* A step in which a motor key went down or up in the USB teleop.
MotorKeyTransition ==
    /\ tel_cfg.kind = "usb"
    /\ \E k \in MotorKeys : (k \in tel_pressed) # (k \in tel_pressed')

Held(pressed, k) == IF k \in pressed THEN 1 ELSE 0

\* The diagonal key held, in the order fwd_right, fwd_left, back_right,
\* back_left, as the <<throttle sign, steer sign>> it asks for.
Diagonal(pressed) ==
    IF "motor_fwd_right" \in pressed THEN <<1, 1>>
    ELSE IF "motor_fwd_left" \in pressed THEN <<1, 0 - 1>>
    ELSE IF "motor_back_right" \in pressed THEN <<0 - 1, 0 - 1>>
    ELSE IF "motor_back_left" \in pressed THEN <<0 - 1, 1>>
    ELSE <<0, 0>>

\* The (throttle, steer) pair the pressed set resolves to: stop keys, then
\* diagonal keys, then the two axes added up.
Resolved(pressed) ==
    IF "motor_stop" \in pressed THEN Pair(0, 0)
    ELSE IF Diagonal(pressed) # <<0, 0>>
    THEN Pair(tel_cfg.speed * Diagonal(pressed)[1], tel_cfg.steer * Diagonal(pressed)[2])
    ELSE Pair(tel_cfg.speed * Held(pressed, "motor_forward")
                  - tel_cfg.speed * Held(pressed, "motor_backward"),
              tel_cfg.steer * Held(pressed, "motor_right")
                  - tel_cfg.steer * Held(pressed, "motor_left"))

\* No stop key and no diagonal key is held, and the axes add up to (0, 0).
AxesCancel(pressed) ==
    /\ "motor_stop" \notin pressed
    /\ Diagonal(pressed) = <<0, 0>>
    /\ Resolved(pressed) = Pair(0, 0)

\* The command _set_motor stores for a pair, at the time of the step.
Stored(pair) ==
    MotorCommand(pair.a, IF tel_cfg.invert_steer THEN 0 - pair.b ELSE pair.b, now)

\* C20 as stated: after every transition of a motor key the stored motor
\* command is the one the pressed set resolves to, in the order stop keys,
\* diagonal keys, added axes.
C20_ResolvedOnEveryTransition ==
    [][MotorKeyTransition => tel_latest_motor' = Stored(Resolved(tel_pressed'))]_vars

\* C20: after every transition of a motor key the stored motor command is
\* the one the pressed set resolves to, in the order stop keys, diagonal keys,
\* added axes, and it is stamped with the time of the transition; except that
\* when the axes add up to (0, 0) with no stop and no diagonal key held, the
\* stored command and its time are left as they were.
C20_ResolvedUnlessAxesCancel ==
    [][MotorKeyTransition =>
           IF AxesCancel(tel_pressed')
           THEN /\ tel_latest_motor' = tel_latest_motor
                /\ tel_last_motor_input_t' = tel_last_motor_input_t
           ELSE /\ tel_latest_motor' = Stored(Resolved(tel_pressed'))
                /\ tel_last_motor_input_t' = now]_vars

\* The USB teleop with two diagonal keys and an axis key held at once, the
\* steer inverted, has just stored the first diagonal's command.
C20_Witness ==
    /\ tel_cfg.kind = "usb"
    /\ tel_cfg.invert_steer
    /\ tel_pressed = {"motor_fwd_right", "motor_back_left", "motor_backward"}
    /\ tel_latest_motor = MotorCommand(1, 0 - 1, now)

(***************************************************************************)
(* Polling drivers                                                         *)
(***************************************************************************)
WaitNextDone(c) == drv_pc[c] = "wx_done" /\ drv_loc[c].ret # None

\* C10 as stated, for N not above the driver's seq: a wait_next(last_seq = N)
\* call that returns a sample without having timed out returns one with
\* seq > N.
C10_NewerUnlessTimedOut ==
    \A c \in Callers :
        (/\ WaitNextDone(c)
         /\ drv_loc[c].last <= drv_loc[c].seq0
         /\ drv_loc[c].why # "timeout") =>
            drv_loc[c].ret.seq > drv_loc[c].last

\* C10: a wait_next(last_seq = N) call with N not above the driver's seq
\* (as is every seq returned before) that returns a sample returns one with
\* seq >= N and not above the driver's seq; with seq = N only when the call
\* timed out or the driver's stop signal is set, and then the sample is the
\* latest one; with seq > N when it ended because a sample was published.
C10_SeqMonotone ==
    \A c \in Callers :
        LET l == drv_loc[c]
        IN  (WaitNextDone(c) /\ l.last <= l.seq0) =>
                /\ l.ret.seq <= drv_seq
                /\ \/ l.ret.seq > l.last
                   \/ /\ l.ret.seq = l.last
                      /\ l.why \in {"stop", "timeout"}
                /\ l.why = "newer" => l.ret.seq > l.last

\* A call that passed the seq of a published sample came back on stop with that
\* same sample.
C10_Witness ==
    \E c \in Callers :
        /\ WaitNextDone(c)
        /\ drv_loc[c].why = "stop"
        /\ drv_loc[c].last >= 1
        /\ drv_loc[c].ret.seq = drv_loc[c].last

\* C11: a start() call made while the driver is running, or after stop() or
\* close() has been called on it, raises and spawns no thread.
C11_StartFailsWhenRunningOrStopped ==
    (drv_started.called /\ (drv_started.running \/ drv_started.stopped)) =>
        (drv_started.raised /\ ~drv_started.spawned)

\* C12: over any sequence of start(), stop() and close() calls, two stop()
\* calls at once included, the controller's close() is invoked at most once.
C12_ClosedAtMostOnce == drv_ctl_closes <= 1

\* C13: a caller blocked in wait_next(), with a timeout or without one,
\* eventually returns once stop() has been called on the driver.
C13_WaitNextReturnsAfterStop ==
    \A c \in Callers :
        (drv_pc[c] = "wx_waiting" /\ drv_stop_called) ~> (drv_pc[c] = "wx_done")

\* C15: no exception raised by a capability read ends a polling thread.
C15_ReadErrorsNotFatal == \A i \in PollThreads : drv_poll[i].pc # "crashed"

(***************************************************************************)
(* tick(): absent commands                                                 *)
(***************************************************************************)
\* C17: a tick in which the servo mux yields absent calls neither set_pan nor
\* set_tilt (tick() has no call of center) and leaves _last_servo as it was;
\* with failsafe-stop disabled, a tick in which the motor mux yields absent
\* does not call drive and leaves _last_motor as it was.
C17_AbsentLeavesAsIs ==
    [][TickStep =>
           /\ tk'.servo_absent =>
                  (~tk'.set_pan /\ ~tk'.set_tilt /\ last_servo' = last_servo)
           /\ (tk'.motor_absent /\ ~motor_failsafe_stop) =>
                  (~tk'.drive /\ last_motor' = last_motor)]_vars

\* A tick found both muxes absent, failsafe-stop disabled, after a servo pair
\* and a motor pair other than the neutral one had been forwarded.
C17_Witness ==
    /\ tk # NoTick
    /\ tk.servo_absent /\ tk.motor_absent
    /\ ~motor_failsafe_stop
    /\ last_servo = Pair(1, 0)
    /\ last_motor = Pair(1, 0)

(***************************************************************************)
(* run_forever()                                                           *)
(***************************************************************************)
\* run_forever() has ended, by returning or by an exception.
RunEnded == run_pc \in {"returned", "raised"}

\* C16: a run_forever() that ends after stop() was requested ends by
\* returning, not by an exception, and with a motor sink and failsafe-stop
\* enabled it has issued its final drive(0, 0), which is the last call the
\* motor sink received from the loop.
C16_FinalStopOnExit ==
    [][(loop_stop /\ ~RunEnded /\ RunEnded') =>
           /\ run_pc' = "returned"
           /\ (motor /\ motor_failsafe_stop) =>
                  (run_final' # NoFinal /\ run_last_drive' = Pair(0, 0))]_vars

(***************************************************************************)
(* Streaming service                                                       *)
(***************************************************************************)
\* C14: every close() of the streaming service returns, in every lifecycle
\* state of the service, also when serve_forever() was never entered.
C14_CloseReturns ==
    \A t \in SvcThreads :
        (svc_close[t] \notin {"idle", "returned"}) ~> (svc_close[t] = "returned")

(***************************************************************************)
(* Terminal key decoding                                                   *)
(***************************************************************************)
\* C21: for every buffer, _pop_key returns the 3-character token and the
\* remaining buffer when the buffer starts with ESC [ followed by A, B, C or
\* D; no token and the unchanged buffer when the buffer starts with ESC and
\* holds fewer than 3 characters; the first character and the rest when the
\* buffer starts with a non-ESC character; and whenever a token is returned,
\* token + rest is the input buffer.
C21_PopKeyDecodes ==
    pk.called =>
        /\ (Len(pk.buf) >= 3 /\ pk.buf[1] = ESC /\ pk.buf[2] = "["
                /\ pk.buf[3] \in {"A", "B", "C", "D"}) =>
               /\ pk.ret.token = Key(<<pk.buf[1], pk.buf[2], pk.buf[3]>>)
               /\ pk.ret.rest = SubSeq(pk.buf, 4, Len(pk.buf))
        /\ (pk.buf # <<>> /\ pk.buf[1] = ESC /\ Len(pk.buf) < 3) =>
               /\ pk.ret.token = None
               /\ pk.ret.rest = pk.buf
        /\ (pk.buf # <<>> /\ pk.buf[1] # ESC) =>
               /\ pk.ret.token = Key(<<pk.buf[1]>>)
               /\ pk.ret.rest = Tail(pk.buf)
        /\ pk.ret.token # None => pk.ret.token.key \o pk.ret.rest = pk.buf

\* ESC [ A decodes to one token that consumes all three characters, and
\* ESC [ alone is held.
C21_Witness ==
    /\ pk.called
    /\ pk.buf = <<ESC, "[">>
    /\ pk.ret = [token |-> None, rest |-> <<ESC, "[">>]
    /\ PopKey(<<ESC, "[", "A">>) = [token |-> Key(<<ESC, "[", "A">>), rest |-> <<>>]

(***************************************************************************)
(* MotorDriver.drive                                                       *)
(***************************************************************************)
\* C22: for all integer throttle and steer_differential, every power passed
\* to set_wheels lies in [-max_power, max_power], the front and the back
\* wheel of a side receive the same power, and with left_scale =
\* right_scale = 1.0 the right power is throttle + steer_differential and
\* the left power throttle - steer_differential, each limited to that
\* interval.
C22_DriveClamps ==
    md.called =>
        /\ \A i \in 1..4 :
               /\ md.wheels[i] >= 0 - md.cfg.max_power
               /\ md.wheels[i] <= md.cfg.max_power
        /\ md.wheels[1] = md.wheels[2]
        /\ md.wheels[3] = md.wheels[4]
        /\ (md.cfg.left_scale = 100 /\ md.cfg.right_scale = 100) =>
               \A side \in {[wheel |-> 3, power |-> md.throttle + md.steer_differential],
                            [wheel |-> 1, power |-> md.throttle - md.steer_differential]} :
                   md.wheels[side.wheel] =
                       IF side.power > md.cfg.max_power THEN md.cfg.max_power
                       ELSE IF side.power < 0 - md.cfg.max_power
                            THEN 0 - md.cfg.max_power
                            ELSE side.power

\* max_power 2000 and both scales 1.0: drive(1800, 500) gives right 2000,
\* limited from 2300, and left 1300.
C22_Witness ==
    /\ md.called
    /\ md.cfg = [max_power |-> 20, left_scale |-> 100, right_scale |-> 100]
    /\ md.throttle = 18
    /\ md.steer_differential = 5
    /\ md.wheels = <<13, 13, 20, 20>>

(***************************************************************************)
(* HTTP handlers of the streaming service                                  *)
(***************************************************************************)
\* The handler of connection c takes a step in which a write to its client
\* fails with a broken pipe or a connection reset.
BrokenWrite(c) == hd[c].pc = "stream" /\ hd'[c].pc = "done" /\ hd'[c].broken

\* The handler of connection c writes a JPEG to its client.
WritesJpeg(c) ==
    /\ hd[c].pc = "stream"
    /\ hd'[c].pc = "stream"
    /\ hd'[c].last_ts # hd[c].last_ts

\* A failed write on connection c ends the handler of c and nothing else:
\* the other handlers, the JPEG store and the server are as they were, and
\* the server, while it serves, accepts a connection in the slot of c.
OnlyThatHandlerEnds(c) ==
    BrokenWrite(c) =>
        /\ \A d \in Connections \ {c} : hd'[d] = hd[d]
        /\ jp' = jp
        /\ svcVars' = svcVars
        /\ svc_srv' = "serving" => hd'[c].pc \in {"idle", "done"}

\* C23 as stated: a broken pipe or connection reset on one /stream.mjpg
\* connection ends only that connection's handler, the JPEG store is
\* unchanged and the server keeps accepting connections, and every handler
\* receives each newly published JPEG: what it writes is the JPEG published
\* next after the one it wrote before.
C23_OthersReceiveEach ==
    [][\A c \in Connections :
           /\ OnlyThatHandlerEnds(c)
           /\ (WritesJpeg(c) /\ hd[c].last_ts # 0) =>
                  hd'[c].last_ts = hd[c].last_ts + 1]_vars

\* C23, amended: a broken pipe or connection reset on one /stream.mjpg
\* connection ends only that connection's handler, the JPEG store is
\* unchanged and the server keeps accepting connections, and every handler
\* writes, each time, the JPEG most recently published, which is another
\* than the one it wrote before.
C23_OthersReceiveLatest ==
    [][\A c \in Connections :
           /\ OnlyThatHandlerEnds(c)
           /\ WritesJpeg(c) =>
                  /\ hd'[c].last_ts = jp.ts
                  /\ jp.ts # hd[c].last_ts
                  /\ jp.value = Frame(jp.ts)]_vars

\* The write on k1 has failed, and k2 has since received a JPEG published
\* after that.
C23_Witness ==
    /\ hd["k1"].pc = "done"
    /\ hd["k1"].path = <<"/stream.mjpg", "">>
    /\ hd["k1"].broken
    /\ hd["k2"].pc = "stream"
    /\ hd["k2"].last_ts > hd["k1"].last_ts
    /\ svc_srv = "serving"

\* The handler of connection c answers a GET.
Answers(c) == hd[c].pc \in {"idle", "done"} /\ hd'[c] # hd[c]

\* The answer of /snapshot.jpg: 503 if and only if no JPEG has been
\* published yet, otherwise 200 with the JPEG published last.
SnapshotAnswer(c) ==
    /\ hd'[c].status = 503 <=> jp.ts = 0
    /\ jp.ts # 0 => hd'[c].status = 200 /\ hd'[c].body = Frame(jp.ts)

\* C24 as stated: GET /snapshot.jpg responds 503 if and only if no JPEG has
\* been published to the store yet, and otherwise 200 with the most recently
\* published JPEG; a GET of any path other than /, /index.html,
\* /snapshot.jpg and /stream.mjpg responds 404.
C24_OtherPathsNotFound ==
    [][\A c \in Connections : Answers(c) =>
           /\ hd'[c].path = <<"/snapshot.jpg", "">> => SnapshotAnswer(c)
           /\ hd'[c].path \notin {<<"/", "">>, <<"/index.html", "">>,
                                  <<"/snapshot.jpg", "">>, <<"/stream.mjpg", "">>} =>
                  hd'[c].status = 404]_vars

\* C24, amended: GET of a path that begins with /snapshot.jpg responds 503
\* if and only if no JPEG has been published to the store yet, and otherwise
\* 200 with the most recently published JPEG; a GET of a path that is
\* neither / nor /index.html and begins with neither /snapshot.jpg nor
\* /stream.mjpg responds 404.
C24_UnmatchedPathsNotFound ==
    [][\A c \in Connections : Answers(c) =>
           /\ hd'[c].path[1] = "/snapshot.jpg" => SnapshotAnswer(c)
           /\ (/\ hd'[c].path \notin {<<"/", "">>, <<"/index.html", "">>}
               /\ hd'[c].path[1] \notin {"/snapshot.jpg", "/stream.mjpg"}) =>
                  hd'[c].status = 404]_vars

\* /snapshot.jpg?t=1 has been answered with the second JPEG, /index.html?t=1
\* with 404.
C24_Witness ==
    /\ hd["k1"].pc = "done"
    /\ hd["k1"].path = <<"/snapshot.jpg", "?t=1">>
    /\ hd["k1"].status = 200
    /\ hd["k1"].body = Frame(2)
    /\ hd["k2"].pc = "done"
    /\ hd["k2"].path = <<"/index.html", "?t=1">>
    /\ hd["k2"].status = 404

(***************************************************************************)
(* Polling threads of the drivers                                          *)
(***************************************************************************)
\* Polling thread i completes a poll cycle: it leaves the block it runs
\* under the driver's lock.
CompletesCycle(i) == drv_poll[i].pc = "publish" /\ drv_poll'[i].pc = "top"

\* C25: in the infrared and the ultrasonic driver seq never decreases and
\* increases by exactly 1 per completed poll cycle, it is written only by a
\* polling thread in the block it runs under the driver's lock, the latest
\* sample changes only together with seq, so that no two published samples
\* share a seq, and the latest sample's seq is the driver's seq in every
\* state.
C25_SeqInvariant ==
    /\ [](drv_kind = "infrared" /\ drv_latest # None => drv_latest.seq = drv_seq)
    /\ [][(drv_kind \in {"infrared", "ultrasonic"}) =>
              /\ drv_seq' \in {drv_seq, drv_seq + 1}
              /\ (drv_seq' = drv_seq + 1) <=> (\E i \in PollThreads : CompletesCycle(i))
              /\ (drv_latest' # drv_latest) => (drv_seq' = drv_seq + 1)]_vars

\* The infrared driver has published its second sample.
C25_Witness ==
    /\ drv_kind = "infrared"
    /\ drv_seq = 2
    /\ drv_latest # None
    /\ drv_latest.seq = 2

\* Polling thread i of the driver is alive.
Live(i) == ~Ended(i)

\* C26: over any sequence of start() and stop() calls on one driver,
\* including a stop() whose bounded join timed out while the thread was
\* inside a capability call, followed by another start(), there are never
\* two live polling threads of the driver at the same time.
C26_OneLiveThread ==
    \A i, j \in PollThreads : Live(i) /\ Live(j) => i = j

\* stop() call s invokes close() on the capability.
ClosesCapability(s) ==
    drv_stopper[s] \in {"close", "close_joined"} /\ drv_stopper'[s] = "idle"

\* A stop() call has returned and the driver has not been started since.
StopReturned ==
    drv_stop_called /\ drv_stop /\ \A s \in Stoppers : drv_stopper[s] = "idle"

\* Polling thread i neither starts nor completes a read and publishes
\* nothing.
NoReadNoPublish(i) ==
    /\ drv_poll[i].pc \in {"read", "publish"} => drv_poll'[i] = drv_poll[i]
    /\ drv_poll'[i].pc = "read" => drv_poll[i].pc = "read"

C28_AbsentReadPublishesNothing ==
    [][\A i \in PollThreads :
           (/\ drv_kind = "ultrasonic"
            /\ drv_poll[i].pc = "publish"
            /\ drv_poll[i].dist = None
            /\ drv_poll'[i].pc # "publish") =>
               /\ drv_seq' = drv_seq
               /\ drv_latest' = drv_latest
               /\ drv_pc' = drv_pc]_vars

C30_EachFrameAtMostOnce ==
    /\ \A ts \in DOMAIN pl_tr : pl_tr[ts].n <= 1
    /\ pl_out.value # None => pl_out.value = Frame(pl_out.ts)
    /\ pl_last_ts = pl_out.ts

(***************************************************************************)
(* The teleop behind the motor mux                                         *)
(***************************************************************************)
\* The mux has the teleop's MotorSource at priority 0 and, at priority 1, an
\* entry whose source holds a fresh command.
TeleopBeforeFresh ==
    /\ Len(entries) = 2
    /\ entries[1] = SourceEntry(1, entries[1].max_age_s, 0)
    /\ entries[2] = SourceEntry(2, entries[2].max_age_s, 1)
    /\ msrc[2] # None
    /\ (now - msrc[2].ts) <= entries[2].max_age_s

\* The teleop has received no motor input for longer than both deadman_s and
\* the max_age_s of its entry.
TeleopSilent ==
    /\ (now - tel_last_motor_input_t) > tel_cfg.deadman_s
    /\ (now - tel_last_motor_input_t) > entries[1].max_age_s

\* C31 as stated: in such a mux, once the teleop has been silent for longer
\* than both deadman_s and its entry's max_age_s, pick() skips the teleop
\* entry and returns the priority-1 command.
C31_SilentTeleopSkipped ==
    (picked # NoPick /\ TeleopBeforeFresh /\ TeleopSilent) =>
        (picked.idx = 2 /\ picked.cmd = msrc[2])

\* C31, amended: in such a mux, once the teleop has been silent for longer
\* than both deadman_s and its entry's max_age_s, pick() returns the stop
\* command (0, 0) that latest_motor() makes at the call, from the teleop's
\* entry; only a teleop that has never received a motor input is skipped,
\* and pick() then returns the priority-1 command.
C31_SilentTeleopStops ==
    (picked # NoPick /\ TeleopBeforeFresh /\ TeleopSilent) =>
        IF tel_latest_motor = None
        THEN picked.idx = 2 /\ picked.cmd = msrc[2]
        ELSE picked.idx = 1 /\ picked.cmd = MotorCommand(0, 0, now)

\* The teleop stores a forward command and has been silent for two units,
\* source 2 has just emitted a command that drives, and pick() has returned
\* the teleop's stop.
C31_Witness ==
    /\ picked # NoPick
    /\ TeleopBeforeFresh /\ TeleopSilent
    /\ tel_latest_motor # None
    /\ tel_latest_motor.throttle = 1
    /\ msrc[2].throttle = 1
    /\ picked.cmd.throttle = 0

\* The loop has one motor mux, whose only entry is the teleop's MotorSource,
\* and substitutes a stop for an absent command.
TeleopAloneFailsafe ==
    /\ motor /\ motor_mux /\ motor_failsafe_stop
    /\ Len(entries) = 1 /\ entries[1].source = 1

\* The teleop has no motor input younger than deadman_s: none at all, or the
\* last one is deadman_s old or older.
NoYoungInput ==
    \/ tel_latest_motor = None
    \/ (now - tel_last_motor_input_t) >= tel_cfg.deadman_s

\* C35: with one motor mux fed by the teleop, failsafe-stop enabled and a
\* sink that does not raise, at the end of every tick executed while the
\* teleop has no motor input younger than deadman_s the value most recently
\* forwarded to the motor sink is (0, 0).
C35_SilentTeleopEndsStopped ==
    [][(TickStep /\ TeleopAloneFailsafe /\ NoYoungInput) =>
           run_last_drive' = Pair(0, 0)]_vars

\* A tick has just forwarded (0, 0) although the teleop still stores a
\* forward command, its deadman having tripped.
C35_Witness ==
    /\ tk # NoTick /\ tk.drive /\ tk.m = Pair(0, 0)
    /\ TeleopAloneFailsafe /\ NoYoungInput
    /\ tel_latest_motor # None /\ tel_latest_motor.throttle = 1
    /\ run_last_drive = Pair(0, 0)

(***************************************************************************)
(* The suppression memory of ControlLoop                                   *)
(***************************************************************************)
\* drive() was called by the tick just made and returned.
DriveReturned == tk'.drive /\ ~tk'.drive_raised

\* set_pan() and set_tilt() were both called by the tick just made and both
\* returned.
BothServoReturned == tk'.set_pan /\ tk'.set_tilt /\ ~tk'.servo_raised

\* C36: _last_motor is absent before the first tick and after every tick it
\* is the pair of that tick's drive() if that call returned, and what it was
\* otherwise; _last_servo likewise changes only when both set_pan and
\* set_tilt returned; so after a sink call that raised, the next tick that
\* resolves the same command makes the write again.
C36_MemoryOfSuccessfulWrites ==
    /\ [](tk = NoTick => (last_motor = None /\ last_servo = None))
    /\ [][TickStep =>
            /\ last_motor' = (IF DriveReturned THEN tk'.m ELSE last_motor)
            /\ last_servo' = (IF BothServoReturned THEN tk'.s ELSE last_servo)
            /\ (NextTickStep /\ tk.drive_raised /\ tk'.m = tk.m) => tk'.drive
            /\ (NextTickStep /\ tk.servo_raised /\ tk'.s = tk.s) => tk'.set_pan
         ]_vars

\* Two ticks resolved the same motor pair; the drive() of the first raised,
\* the second called drive() again and that call returned, so that the memory
\* now holds the pair.
C36_Witness ==
    /\ tk.ticked
    /\ tk.same_m /\ tk.drive /\ ~tk.drive_raised
    /\ last_motor = tk.m

(***************************************************************************)
(* The pressed set of the USB teleop                                       *)
(***************************************************************************)
\* A motor key that was held is no longer held.
MotorKeyRelease == \E k \in MotorKeys : k \in tel_pressed /\ k \notin tel_pressed'

\* C32: the pressed set is exactly the set of tokens whose most recent event
\* was a key-down or a repeat; a release recomputes the motor command from
\* the keys that remain (storing nothing when they add up to (0, 0)); and
\* when RIGHT is released while FORWARD is held, the stored motor command is
\* (speed, 0).
C32_PressedTracksEvents ==
    /\ [](tel_pressed = {t \in DOMAIN usb_hist.last : usb_hist.last[t] \in {1, 2}})
    /\ [][/\ MotorKeyRelease =>
                IF AxesCancel(tel_pressed')
                THEN tel_latest_motor' = tel_latest_motor
                ELSE tel_latest_motor' = Stored(Resolved(tel_pressed'))
          /\ (/\ tel_pressed = {"motor_forward", "motor_right"}
              /\ tel_pressed' = {"motor_forward"})
                 => tel_latest_motor' = MotorCommand(tel_cfg.speed, 0, now)
         ]_vars

\* The last event of RIGHT was a key-up, FORWARD is held (its last event a
\* repeat), and the command stored at this time is (speed, 0).
C32_Witness ==
    /\ usb_hist.last["motor_right"] = 0
    /\ usb_hist.last["motor_forward"] = 2
    /\ tel_pressed = {"motor_forward"}
    /\ now > 0
    /\ tel_latest_motor = MotorCommand(tel_cfg.speed, 0, now)

\* No key event was read since the last start().
NoEventSinceStart == \A t \in DOMAIN usb_hist.since : usb_hist.since[t] = 0 - 1

\* C37: after start(), and until a key event is read, the input thread of the
\* USB teleop stores no motor command and refreshes no motor timestamp,
\* whatever keys were held when stop() was called.
C37_NoPhantomMotion ==
    [][(NoEventSinceStart /\ NoEventSinceStart') =>
           /\ tel_latest_motor' = tel_latest_motor
           /\ tel_last_motor_input_t' = tel_last_motor_input_t]_vars

(***************************************************************************)
(* The servo step of the USB teleop                                        *)
(***************************************************************************)
\* What the held pan keys and tilt keys add to an angle in one step.
PanStep(c) ==
    (IF c.cfg.invert_pan THEN 0 - c.cfg.servo_step ELSE c.cfg.servo_step)
        * (Held01(c.pressed, "servo_pan_right") - Held01(c.pressed, "servo_pan_left"))

TiltStep(c) ==
    (IF c.cfg.invert_tilt THEN 0 - c.cfg.servo_step ELSE c.cfg.servo_step)
        * (Held01(c.pressed, "servo_tilt_up") - Held01(c.pressed, "servo_tilt_down"))

\* C33: a servo step leaves pan = 0 and tilt = 0 while a center key is held;
\* otherwise it moves pan by servo_step for each held pan key and tilt by
\* servo_step for each held tilt key, in the direction the inversion flags
\* give; and it emits a servo command only when it changed pan or tilt.
C33_ServoStep ==
    ss.called =>
        /\ IF "servo_center" \in ss.pressed
           THEN ss.ret.pan = 0 /\ ss.ret.tilt = 0
           ELSE /\ ss.ret.pan = ss.pan + PanStep(ss)
                /\ ss.ret.tilt = ss.tilt + TiltStep(ss)
        /\ ss.ret.changed => (ss.ret.pan # ss.pan \/ ss.ret.tilt # ss.tilt)

(***************************************************************************)
(* The terminal of the terminal teleop                                     *)
(***************************************************************************)
\* The input thread leaves _loop: through the end of its `while`, or through
\* an exception.
LeavesLoop == tel_thread = "running" /\ tel_thread' # "running"

\* C34: whenever the input thread of the terminal teleop leaves _loop after
\* having saved the terminal state, because of stop(), a quit key or an
\* exception, the terminal has the attributes and the file-status flags that
\* were saved at entry, and keeps them until the thread has ended.
C34_TerminalRestored ==
    /\ [][(tel_cfg.kind = "terminal" /\ LeavesLoop) =>
              /\ tty'.attrs = tty.old_attrs
              /\ tty'.flags = tty.old_flags]_vars
    /\ []((tel_cfg.kind = "terminal" /\ tel_thread \in {"caught", "caught2", "exited", "crashed"})
              => (tty.attrs = tty.old_attrs /\ tty.flags = tty.old_flags))

\* The thread has ended after an exception, on a terminal that was in cbreak
\* mode with O_APPEND set at entry, and the terminal is in that state again.
C34_Witness ==
    /\ tel_cfg.kind = "terminal"
    /\ tel_thread = "crashed"
    /\ tty = Tty("cbreak", {"O_APPEND"})

(***************************************************************************)
(* Timestamps through the pipeline                                         *)
(***************************************************************************)
\* C38: every timestamp written to the processed-frame store is the one of
\* the frame the camera driver holds, every timestamp written to the JPEG
\* store the one the processed-frame store holds, and each store's
\* timestamps are written in capture order: each one later than the one it
\* replaces, none again and none out of order.
C38_FramesInCaptureOrder ==
    [][/\ pl_out' # pl_out =>
            /\ drv_latest # None /\ pl_out'.ts = drv_latest.timestamp
            /\ pl_out'.ts > pl_out.ts
       /\ je'.out # je.out =>
            /\ je'.out.ts = pl_out.ts
            /\ je'.out.ts > je.out.ts]_vars

====
